---- MODULE Spec2Model ----
(***************************************************************************)
(* Book Writing Assistant (VS Code extension): the provider resolution     *)
(* chain of BookWritingPanel, its offline responders, and the session      *)
(* context they read and write.                                            *)
(*                                                                         *)
(* Strings are modelled as sequences of string atoms ("ropes"): a template *)
(* literal `a ${x} b` is <<"a ">> \o x \o <<" b">>.  User input (a chat    *)
(* message, a topic) is a sequence of one-character atoms, so that         *)
(* toLowerCase() and includes() are computed character by character.  The  *)
(* empty string is <<>>; no rope of the model holds an empty atom.         *)
(*                                                                         *)
(* A handler is an async function.  JavaScript runs it to completion up to *)
(* the first await on I/O (fetch / response.json()); a step of the model   *)
(* is one such run-to-completion stretch.                                  *)
(***************************************************************************)
EXTENDS Integers, Sequences, FiniteSets, TLC

VARIABLES
    env,               \* process.env: OPENAI_API_KEY, ANTHROPIC_API_KEY
    recentActivities,  \* SessionContextManager._context.recentActivities
    currentProject,    \* SessionContextManager._context.currentProject
    req,               \* the invocations of the panel's message handlers
    fb,                \* a direct call of an offline responder (SpecFallback)
    host,              \* VS Code and the disk: BookWritingPanel.currentPanel,
                       \* workspaceFolders, directories, files, window messages
    appended,          \* history: every record passed to addToContext, in order
    webview            \* the chat of the panel's and of the sidebar's webview: the
                       \* elements of class assistant-message, in document order

vars == <<env, recentActivities, currentProject, req, fb, host, appended, webview>>

-----------------------------------------------------------------------------
(* Bounds of the model *)

\* number of webview messages (sendMessage / generateContent) a run handles
MaxRequests == 2
\* a handler's Math.random() is drawn from {0/RandSteps, ..., (RandSteps-1)/RandSteps}
RandSteps == 2
\* a direct call's Math.random() is drawn from {0/FineSteps, ..., (FineSteps-1)/FineSteps}
FineSteps == 5
\* longest message built from MsgAlphabet for the offline responders
MaxMsgLen == 2
\* number of direct calls of addToContext in a run
MaxAppends == 12
\* panels created in one session
MaxPanels == 2
\* 'createMarkdownFile' messages in one session
MaxSaves == 3
\* records and files added by direct calls of the context manager
MaxActivities == 6
\* length of the strings _sanitizeFilename is called with
MaxNameLen == 3

-----------------------------------------------------------------------------
(* Strings *)

\* the value `undefined` of an optional string
Undefined == <<"<undefined>">>

\* JavaScript truthiness of an optional string: neither undefined nor ""
Truthy(s) == s # Undefined /\ s # <<>>

UpperChars == <<"A","B","C","D","E","F","G","H","I","J","K","L","M",
                "N","O","P","Q","R","S","T","U","V","W","X","Y","Z">>
LowerChars == <<"a","b","c","d","e","f","g","h","i","j","k","l","m",
                "n","o","p","q","r","s","t","u","v","w","x","y","z">>

ToLowerChar(c) ==
    IF \E i \in 1..Len(UpperChars) : UpperChars[i] = c
    THEN LowerChars[CHOOSE i \in 1..Len(UpperChars) : UpperChars[i] = c]
    ELSE c

\* String.prototype.toLowerCase
ToLowerCase(s) == [i \in 1..Len(s) |-> ToLowerChar(s[i])]

\* String.prototype.includes: k occurs in s as a contiguous substring
Includes(s, k) ==
    \E i \in 0..(Len(s) - Len(k)) : SubSeq(s, i + 1, i + Len(k)) = k

\* Array.prototype.join(', ')
RECURSIVE Join(_)
Join(names) ==
    IF names = <<>> THEN <<>>
    ELSE IF Len(names) = 1 THEN names[1]
    ELSE names[1] \o <<", ">> \o Join(Tail(names))

\* Array.prototype.slice(-n): the last n elements
SliceLast(s, n) == IF Len(s) <= n THEN s ELSE SubSeq(s, Len(s) - n + 1, Len(s))

-----------------------------------------------------------------------------
(* SessionContextManager *)

\* recentActivities keeps the last ActivityCap records
ActivityCap == 10
\* getContextSummary lists the last SummaryCount records
SummaryCount == 5

\* addToContext(action, details): push, then keep the last ActivityCap
\* the cut keeps the first ten records instead of the last ten
addToContext_KeepsOldest(log, action, details) ==
    LET pushed == Append(log, [action |-> action, details |-> details])
    IN  IF Len(pushed) > 10 THEN SubSeq(pushed, 1, 10) ELSE pushed

addToContext(log, action, details) ==
    LET pushed == Append(log, [action |-> action, details |-> details])
    IN  IF Len(pushed) > ActivityCap THEN SliceLast(pushed, ActivityCap) ELSE pushed

\* an update that assigns whatever it is given
updateProjectContext_Unconditional(project, topic, domain) ==
    [project EXCEPT !.mainTopic = topic, !.domain = domain]

\* updateProjectContext(topic, domain)
updateProjectContext(project, topic, domain) ==
    [project EXCEPT !.mainTopic = IF Truthy(topic) THEN topic ELSE @,
                    !.domain    = IF Truthy(domain) THEN domain ELSE @]

\* addGeneratedFile(filename)
addGeneratedFile(project, filename) ==
    [project EXCEPT !.generatedFiles = Append(@, filename)]

\* project.mainTopic && project.domain
hasProject(project) == Truthy(project.mainTopic) /\ Truthy(project.domain)

\* the digits of index + 1 for the numbered list of getContextSummary
Digits == <<"1","2","3","4","5","6","7","8","9","10">>

RECURSIVE ActivityLines(_, _)
ActivityLines(recent, index) ==
    IF index > Len(recent) THEN <<>>
    ELSE <<Digits[index], ". ">> \o recent[index].details
           \o <<" (", "<timeAgo>", " min ago)\n">>
           \o ActivityLines(recent, index + 1)

\* a summary of the first activities of the log
getContextSummary_Oldest(log, project) ==
    LET recent == SubSeq(log, 1, IF Len(log) < SummaryCount THEN Len(log) ELSE SummaryCount)
    IN  (IF hasProject(project)
         THEN <<"CURRENT PROJECT CONTEXT:\n", "- Main Topic: ">> \o project.mainTopic
              \o <<"\n", "- Domain: ">> \o project.domain
              \o <<"\n", "- Generated Files: ">>
              \o (IF Len(project.generatedFiles) > 0
                  THEN Join(project.generatedFiles) ELSE <<"None yet">>)
              \o <<"\n\n">>
         ELSE <<>>)
        \o (IF Len(recent) > 0
            THEN <<"RECENT ACTIVITIES:\n">> \o ActivityLines(recent, 1) \o <<"\n">>
            ELSE <<>>)

\* getContextSummary()
getContextSummary(log, project) ==
    LET recent == SliceLast(log, SummaryCount)
        projectBlock ==
            IF hasProject(project)
            THEN <<"CURRENT PROJECT CONTEXT:\n", "- Main Topic: ">> \o project.mainTopic
                 \o <<"\n", "- Domain: ">> \o project.domain
                 \o <<"\n", "- Generated Files: ">>
                 \o (IF Len(project.generatedFiles) > 0
                     THEN Join(project.generatedFiles) ELSE <<"None yet">>)
                 \o <<"\n\n">>
            ELSE <<>>
        recentBlock ==
            IF Len(recent) > 0
            THEN <<"RECENT ACTIVITIES:\n">> \o ActivityLines(recent, 1) \o <<"\n">>
            ELSE <<>>
    IN  projectBlock \o recentBlock

-----------------------------------------------------------------------------
(* Offline responders *)

\* the keywords tested with lowerMessage.includes(...)
KwOutline == <<"o","u","t","l","i","n","e">>
KwStructure == <<"s","t","r","u","c","t","u","r","e">>
KwLesson == <<"l","e","s","s","o","n">>
KwContent == <<"c","o","n","t","e","n","t">>
KwExercise == <<"e","x","e","r","c","i","s","e">>
KwPractice == <<"p","r","a","c","t","i","c","e">>
KwQuiz == <<"q","u","i","z">>
KwTest == <<"t","e","s","t">>
KwAssessment == <<"a","s","s","e","s","s","m","e","n","t">>
KwSummary == <<"s","u","m","m","a","r","y">>
KwReview == <<"r","e","v","i","e","w">>
KwCode == <<"c","o","d","e">>
KwFunction == <<"f","u","n","c","t","i","o","n">>
KwVariable == <<"v","a","r","i","a","b","l","e">>
KwDebug == <<"d","e","b","u","g">>
KwVscode == <<"v","s","c","o","d","e">>
KwExtension == <<"e","x","t","e","n","s","i","o","n">>
KwEditor == <<"e","d","i","t","o","r">>
KwWorkspace == <<"w","o","r","k","s","p","a","c","e">>
KwHow == <<"h","o","w">>
KwWhat == <<"w","h","a","t">>
KwWhy == <<"w","h","y">>
KwHello == <<"h","e","l","l","o">>
KwHi == <<"h","i">>
KwHey == <<"h","e","y">>
KwGood == <<"g","o","o","d">>
KwQuestionMark == <<"?">>

\* A value of Math.random() is a fraction <<num, den>> with 0 <= num < den.
\* Math.floor(Math.random() * length)
\* Math.floor(Math.random() * (responses.length + 1))
RandomIndex_OffByOne(rnd, length) == (rnd[1] * (length + 1)) \div rnd[2]

RandomIndex(rnd, length) == (rnd[1] * length) \div rnd[2]

\* responses[Math.floor(Math.random() * responses.length)]: an index outside
\* the array reads `undefined`
PickRandom(responses, rnd) ==
    LET index == RandomIndex(rnd, Len(responses))
    IN  IF index >= 0 /\ index < Len(responses) THEN responses[index + 1] ELSE Undefined

\* ChatRobotPanel._getSmartFallbackResponse: the five pools
codeResponses == <<
    <<"I'd be happy to help with your code! Can you share more details about what you're working on?">>,
    <<"That sounds like a coding challenge. What programming language are you using?">>,
    <<"For debugging, I recommend checking the VS Code terminal and console for error messages. What specific issue are you facing?">>,
    <<"Code organization is important! Are you looking for help with structure, syntax, or logic?">> >>

vscodeResponses == <<
    <<"VS Code is amazing! What feature or extension are you curious about?">>,
    <<"I can help with VS Code tips! Try pressing Ctrl+Shift+P to open the command palette.">>,
    <<"Extensions make VS Code powerful. Check out the Extensions marketplace for useful tools!">>,
    <<"VS Code has great debugging capabilities. Have you tried setting breakpoints in your code?">> >>

helpResponses == <<
    <<"Great question! I'm here to help. Can you provide more context about what you need?">>,
    <<"I'd love to help you figure that out! What specifically are you trying to achieve?">>,
    <<"That's an interesting question. Let me know more details and I'll do my best to assist!">>,
    <<"Questions are wonderful for learning! What area would you like to explore?">> >>

greetingResponses == <<
    <<"Hello! I'm your coding companion. What can I help you with today?">>,
    <<"Hi there! Ready to tackle some coding challenges together?">>,
    <<"Hey! Great to see you. What programming adventure are we going on today?">>,
    <<"Good to meet you! I'm here to help with any coding questions or VS Code tips you need.">> >>

defaultResponses == <<
    <<"That's interesting! Tell me more about what you're working on.">>,
    <<"I'm here to help! What specific challenge are you facing?">>,
    <<"Thanks for sharing! How can I assist you with your development work?">>,
    <<"I'd love to help you with that. Can you provide more details?">>,
    <<"Interesting! Are you looking for coding help, VS Code tips, or something else?">> >>

\* the greeting test moved to the top
SmartCategory_GreetingFirst(userMessage) ==
    LET lowerMessage == ToLowerCase(userMessage)
    IN  IF Includes(lowerMessage, KwHello) \/ Includes(lowerMessage, KwHi)
           \/ Includes(lowerMessage, KwHey) \/ Includes(lowerMessage, KwGood)
        THEN "greeting"
        ELSE IF Includes(lowerMessage, KwCode) \/ Includes(lowerMessage, KwFunction)
                \/ Includes(lowerMessage, KwVariable) \/ Includes(lowerMessage, KwDebug)
        THEN "code"
        ELSE IF Includes(lowerMessage, KwVscode) \/ Includes(lowerMessage, KwExtension)
                \/ Includes(lowerMessage, KwEditor) \/ Includes(lowerMessage, KwWorkspace)
        THEN "vscode"
        ELSE IF Includes(lowerMessage, KwHow) \/ Includes(lowerMessage, KwWhat)
                \/ Includes(lowerMessage, KwWhy) \/ Includes(lowerMessage, KwQuestionMark)
        THEN "help"
        ELSE "default"

\* the category _getSmartFallbackResponse selects for a message
SmartCategory(userMessage) ==
    LET lowerMessage == ToLowerCase(userMessage)
    IN  IF Includes(lowerMessage, KwCode) \/ Includes(lowerMessage, KwFunction)
           \/ Includes(lowerMessage, KwVariable) \/ Includes(lowerMessage, KwDebug)
        THEN "code"
        ELSE IF Includes(lowerMessage, KwVscode) \/ Includes(lowerMessage, KwExtension)
                \/ Includes(lowerMessage, KwEditor) \/ Includes(lowerMessage, KwWorkspace)
        THEN "vscode"
        ELSE IF Includes(lowerMessage, KwHow) \/ Includes(lowerMessage, KwWhat)
                \/ Includes(lowerMessage, KwWhy) \/ Includes(lowerMessage, KwQuestionMark)
        THEN "help"
        ELSE IF Includes(lowerMessage, KwHello) \/ Includes(lowerMessage, KwHi)
                \/ Includes(lowerMessage, KwHey) \/ Includes(lowerMessage, KwGood)
        THEN "greeting"
        ELSE "default"

SmartPool(category) ==
    CASE category = "code"     -> codeResponses
      [] category = "vscode"   -> vscodeResponses
      [] category = "help"     -> helpResponses
      [] category = "greeting" -> greetingResponses
      [] OTHER                 -> defaultResponses

\* ChatRobotPanel._getSmartFallbackResponse(userMessage), Math.random() = rnd
getSmartFallbackResponse(userMessage, rnd) ==
    PickRandom(SmartPool(SmartCategory(userMessage)), rnd)

\* BookWritingPanel._getBookWritingFallback: the keyword group of a message
\* ("none" when no group matches)
BookCategory(userMessage) ==
    LET lowerMessage == ToLowerCase(userMessage)
    IN  IF Includes(lowerMessage, KwOutline) \/ Includes(lowerMessage, KwStructure)
        THEN "outline"
        ELSE IF Includes(lowerMessage, KwLesson) \/ Includes(lowerMessage, KwContent)
        THEN "lesson"
        ELSE IF Includes(lowerMessage, KwExercise) \/ Includes(lowerMessage, KwPractice)
        THEN "exercise"
        ELSE IF Includes(lowerMessage, KwQuiz) \/ Includes(lowerMessage, KwTest)
                \/ Includes(lowerMessage, KwAssessment)
        THEN "quiz"
        ELSE IF Includes(lowerMessage, KwSummary) \/ Includes(lowerMessage, KwReview)
        THEN "summary"
        ELSE "none"

\* the context-aware replies (hasProject)
ProjectReply(category, project) ==
    CASE category = "outline" ->
            <<"I can help you create chapter outlines for your ">> \o project.domain
            \o <<" book about \"">> \o project.mainTopic
            \o <<"\"! Use the quick actions above to generate structured outlines.">>
      [] category = "lesson" ->
            <<"Let's create engaging lesson content for \"">> \o project.mainTopic
            \o <<"\"! The lesson generator can help you build comprehensive educational materials with examples and explanations specific to ">>
            \o project.domain \o <<".">>
      [] category = "exercise" ->
            <<"Practical exercises are crucial for learning \"">> \o project.mainTopic
            \o <<"\"! I can generate hands-on activities and practice problems tailored to ">>
            \o project.domain \o <<".">>
      [] category = "quiz" ->
            <<"Assessments help reinforce learning about \"">> \o project.mainTopic
            \o <<"\"! Try the quiz generator to create comprehensive tests for your ">>
            \o project.domain \o <<" content.">>
      [] category = "summary" ->
            <<"Summaries are perfect for reinforcing key concepts of \"">> \o project.mainTopic
            \o <<"\"! Generate structured summaries with key terms, best practices, and action items for ">>
            \o project.domain \o <<".">>

\* the generic replies (no project context)
GenericReply(category) ==
    CASE category = "outline" ->
            <<"I can help you create chapter outlines! Use the quick actions above to generate structured outlines for any topic in your domain.">>
      [] category = "lesson" ->
            <<"Let's create engaging lesson content! The lesson generator can help you build comprehensive educational materials with examples and explanations.">>
      [] category = "exercise" ->
            <<"Practical exercises are crucial for learning! I can generate hands-on activities and practice problems tailored to your topic and domain.">>
      [] category = "quiz" ->
            <<"Assessments help reinforce learning! Try the quiz generator to create comprehensive tests with multiple question types and answer keys.">>
      [] category = "summary" ->
            <<"Summaries are perfect for reinforcing key concepts! Generate structured summaries with key terms, best practices, and action items.">>

\* a first response that also reports how many files were generated
ProjectResponses_CountsFiles(project) == <<
    <<"I'm your book writing assistant! You have created ">>
        \o (IF Len(project.generatedFiles) > 0 THEN <<"some">> ELSE <<"no">>)
        \o <<" files for \"">> \o project.mainTopic \o <<"\" in ">> \o project.domain
        \o <<". What would you like to create next?">> >>

\* `responses` when hasProject
ProjectResponses(project) == <<
    <<"I'm your book writing assistant! I can help you continue working on your ">>
        \o project.domain \o <<" book about \"">> \o project.mainTopic
        \o <<"\". What would you like to create next?">>,
    <<"Great progress on your \"">> \o project.mainTopic
        \o <<"\" content! I can help you generate more chapters, lessons, exercises, quizzes, and summaries for your ">>
        \o project.domain \o <<" book.">>,
    <<"You're building excellent ">> \o project.domain \o <<" content about \"">>
        \o project.mainTopic
        \o <<"\"! What type of learning material would you like to create next?">>,
    <<"I see you're working on \"">> \o project.mainTopic \o <<"\" in the ">>
        \o project.domain
        \o <<" domain. How can I help you expand your educational content?">> >>

\* `responses` without a project
GenericResponses == <<
    <<"I'm your book writing assistant! I can help you create chapters, lessons, exercises, quizzes, and summaries for educational content.">>,
    <<"What type of learning material would you like to create? I specialize in generating structured educational content in markdown format.">>,
    <<"I can help you write comprehensive training materials. What subject area or domain are you focusing on?">>,
    <<"Let's create some engaging educational content! Use the quick actions above or tell me what specific help you need with your book.">>,
    <<"I'm here to assist with all aspects of educational book writing. What can I help you generate today?">> >>

\* the responder without its context-aware branch
getBookWritingFallback_NoProject(userMessage, project, rnd) ==
    LET category == BookCategory(userMessage)
    IN  IF category # "none" THEN GenericReply(category)
        ELSE PickRandom(GenericResponses, rnd)

\* BookWritingPanel._getBookWritingFallback(userMessage), Math.random() = rnd
getBookWritingFallback(userMessage, project, rnd) ==
    LET category == BookCategory(userMessage)
    IN  IF hasProject(project) /\ category # "none" THEN ProjectReply(category, project)
        ELSE IF category # "none" THEN GenericReply(category)
        ELSE PickRandom(IF hasProject(project) THEN ProjectResponses(project)
                        ELSE GenericResponses, rnd)

\* the BookWritingPanel._getBookWritingFallback of the earlier revision
\* (src/extension.ts): the same replies, no project context
getBookWritingFallbackStatic(userMessage, rnd) ==
    LET category == BookCategory(userMessage)
    IN  IF category # "none" THEN GenericReply(category)
        ELSE PickRandom(GenericResponses, rnd)

\* BookWritingChatProvider._getBookWritingFallback (sidebar): the short replies
SidebarProjectReply(category, project) ==
    CASE category = "outline" ->
            <<"Create chapter outlines for your ">> \o project.domain
            \o <<" book about \"">> \o project.mainTopic
            \o <<"\" using the Content Generator panel.">>
      [] category = "lesson" ->
            <<"Generate lesson content for \"">> \o project.mainTopic \o <<"\" in the ">>
            \o project.domain \o <<" domain using the generator.">>
      [] category = "exercise" ->
            <<"Create exercises for \"">> \o project.mainTopic
            \o <<"\" to help students practice ">> \o project.domain \o <<" concepts.">>

SidebarProjectResponses(project) == <<
    <<"Working on \"">> \o project.mainTopic \o <<"\" in ">> \o project.domain
        \o <<"! How can I help with your book?">>,
    <<"Great progress on your ">> \o project.domain
        \o <<" content! What would you like to create next?">>,
    <<"I can help with chapters, lessons, exercises, quizzes, and summaries for \"">>
        \o project.mainTopic \o <<"\".">> >>

SidebarGenericResponses == <<
    <<"I'm your book writing assistant! Ask me about creating educational content.">>,
    <<"I can help you structure lessons, create exercises, and write comprehensive learning materials.">>,
    <<"What type of educational content are you working on today?">> >>

\* BookWritingChatProvider._getBookWritingFallback(userMessage)
getSidebarFallback(userMessage, project, rnd) ==
    LET category == BookCategory(userMessage)
    IN  IF hasProject(project) /\ category \in {"outline", "lesson", "exercise"}
        THEN SidebarProjectReply(category, project)
        ELSE PickRandom(IF hasProject(project) THEN SidebarProjectResponses(project)
                        ELSE SidebarGenericResponses, rnd)

-----------------------------------------------------------------------------
(* Utility methods and templates of BookWritingPanel *)

DigitChars == {"0","1","2","3","4","5","6","7","8","9"}
\* the characters the regular expression class \s matches, as far as the model has them
WhitespaceChars == {" ", "\t", "\n"}

IsLowerAlnum(c) == (\E i \in 1..Len(LowerChars) : LowerChars[i] = c) \/ c \in DigitChars

\* replace(/\s+/g, '-'): every maximal run of whitespace becomes one hyphen
RECURSIVE ReplaceWhitespaceRuns(_)
ReplaceWhitespaceRuns(s) ==
    IF s = <<>> THEN <<>>
    ELSE IF Head(s) \in WhitespaceChars
         THEN IF Len(s) > 1 /\ s[2] \in WhitespaceChars
              THEN ReplaceWhitespaceRuns(Tail(s))
              ELSE <<"-">> \o ReplaceWhitespaceRuns(Tail(s))
         ELSE <<Head(s)>> \o ReplaceWhitespaceRuns(Tail(s))

\* replace(/-+/g, '-'): every maximal run of hyphens becomes one hyphen
RECURSIVE CollapseHyphens(_)
CollapseHyphens(s) ==
    IF s = <<>> THEN <<>>
    ELSE IF Head(s) = "-" /\ Len(s) > 1 /\ s[2] = "-"
         THEN CollapseHyphens(Tail(s))
         ELSE <<Head(s)>> \o CollapseHyphens(Tail(s))

\* String.prototype.trim
RECURSIVE Trim(_)
Trim(s) ==
    IF s = <<>> THEN <<>>
    ELSE IF Head(s) \in WhitespaceChars THEN Trim(Tail(s))
    ELSE IF s[Len(s)] \in WhitespaceChars THEN Trim(SubSeq(s, 1, Len(s) - 1))
    ELSE s

\* the chain of replacements with hyphens collapsed before white space is replaced
sanitizeFilename_CollapseFirst(text) ==
    LET lower == ToLowerCase(text)
        kept  == SelectSeq(lower, LAMBDA c : IsLowerAlnum(c) \/ c \in WhitespaceChars \/ c = "-")
    IN  Trim(ReplaceWhitespaceRuns(CollapseHyphens(kept)))

\* _sanitizeFilename(text)
sanitizeFilename(text) ==
    LET lower == ToLowerCase(text)
        kept  == SelectSeq(lower, LAMBDA c : IsLowerAlnum(c) \/ c \in WhitespaceChars \/ c = "-")
    IN  Trim(CollapseHyphens(ReplaceWhitespaceRuns(kept)))

\* the content types of the switch in _handleContentGeneration
KnownTypes == {"chapter-outline", "lesson-content", "exercise", "quiz", "summary"}

\* the switch with the file names of quiz and exercise exchanged
FilenameSuffix_Swapped(type) ==
    CASE type = "chapter-outline" -> <<"-outline.md">>
      [] type = "lesson-content"  -> <<"-lesson.md">>
      [] type = "exercise"        -> <<"-quiz.md">>
      [] type = "quiz"            -> <<"-exercise.md">>
      [] type = "summary"         -> <<"-summary.md">>

\* the file name suffix of each case of the switch
FilenameSuffix(type) ==
    CASE type = "chapter-outline" -> <<"-outline.md">>
      [] type = "lesson-content"  -> <<"-lesson.md">>
      [] type = "exercise"        -> <<"-exercise.md">>
      [] type = "quiz"            -> <<"-quiz.md">>
      [] type = "summary"         -> <<"-summary.md">>

\* _getChapterOutlineTemplate .. _getSummaryTemplate (the body after the
\* heading is fixed text, abbreviated here)
ContentTemplate(type, topic, domain) ==
    CASE type = "chapter-outline" ->
            <<"# Chapter Outline: ">> \o topic \o <<"\n\n## Domain: ">> \o domain
            \o <<"\n\n### Learning Objectives\n- Understand the fundamentals of ">> \o topic
            \o <<"\n[...]\n*Generated by Book Writing Assistant*\n">>
      [] type = "lesson-content" ->
            <<"# Lesson: ">> \o topic
            \o <<"\n\n## Introduction\n\nWelcome to this lesson on **">> \o topic
            \o <<"** in the context of ">> \o domain
            \o <<". [...]\n*Generated by Book Writing Assistant*\n">>
      [] type = "exercise" ->
            <<"# Exercises: ">> \o topic \o <<"\n\n## Domain: ">> \o domain
            \o <<"\n\n### Exercise 1: Basic Understanding\n**Objective**: Test your foundational knowledge of ">>
            \o topic \o <<"\n[...]\n*Generated by Book Writing Assistant*\n">>
      [] type = "quiz" ->
            <<"# Quiz: ">> \o topic \o <<"\n\n## Domain: ">> \o domain
            \o <<"\n\n### Instructions\n[...]\n*Generated by Book Writing Assistant*\n">>
      [] type = "summary" ->
            <<"# Summary: ">> \o topic \o <<"\n\n## Domain: ">> \o domain
            \o <<"\n\n### Key Concepts\n[...]\n*Generated by Book Writing Assistant*\n">>

\* the opening sentence of the prompt of each _generate* method
GeneratorLead(type) ==
    CASE type = "chapter-outline" -> <<"Create a detailed chapter outline for a book about \"">>
      [] type = "lesson-content"  -> <<"Write a comprehensive lesson about \"">>
      [] type = "exercise"        -> <<"Create practical exercises and hands-on activities for learning \"">>
      [] type = "quiz"            -> <<"Create a comprehensive quiz about \"">>
      [] type = "summary"         -> <<"Write a concise but comprehensive summary of \"">>

GeneratorRequest(type) ==
    CASE type = "chapter-outline" -> <<"CONTENT REQUEST: Create a chapter outline for \"">>
      [] type = "lesson-content"  -> <<"CONTENT REQUEST: Create lesson content for \"">>
      [] type = "exercise"        -> <<"CONTENT REQUEST: Create exercises for \"">>
      [] type = "quiz"            -> <<"CONTENT REQUEST: Create a quiz for \"">>
      [] type = "summary"         -> <<"CONTENT REQUEST: Create a summary for \"">>

\* the prompt built by _generateChapterOutline .. _generateSummary (the
\* REQUIRED FORMAT / MUST INCLUDE part is fixed text, abbreviated here)
GeneratorPrompt(type, topic, domain, contextSummary) ==
    <<"You are a professional educational content writer. ">> \o GeneratorLead(type)
    \o topic \o <<"\" in the ">> \o domain \o <<" domain.\n\n">>
    \o contextSummary \o GeneratorRequest(type) \o topic \o <<"\" in ">> \o domain
    \o <<" domain.\n\nREQUIRED FORMAT: [...]">>

\* a prompt without its USER QUESTION line
BookWritingPrompt_NoQuestion(userMessage, contextSummary) ==
    <<"You are a professional book writing assistant specializing in creating educational and training content. [...]\n\n">>
    \o contextSummary
    \o <<"\n\nCONTEXT AWARENESS: Use the session context above to provide relevant, informed responses. [...]">>

\* the prompt built by _getBookWritingResponse (the rest of the list of
\* content types and the closing paragraph are fixed text, abbreviated
\* here); two words of the preamble are spelled in characters, as the user's
\* message is
BookWritingPrompt(userMessage, contextSummary) ==
    <<"You are a professional book writing assistant specializing in creating educational and training content. You help authors create ">>
    \o <<"s","t","r","u","c","t","u","r","e","d">>
    \o <<" learning materials including:\n\nCONTENT TYPES YOU GENERATE:\n1. CHAPTER ">>
    \o <<"O","U","T","L","I","N","E","S">>
    \o <<" - Structured learning plans [...]\n\n">>
    \o contextSummary \o <<"USER QUESTION: ">> \o userMessage
    \o <<"\n\nCONTEXT AWARENESS: Use the session context above to provide relevant, informed responses. [...]">>

-----------------------------------------------------------------------------
(* The three providers *)

\* the order of the try blocks of _getAIResponse
\* the try blocks of the local model and of OpenAI exchanged
ProviderOrder_LocalFirst == <<"LocalAI", "OpenAI", "Claude">>

\* the try blocks of _getAIResponse, from the top
ProviderOrder == <<"OpenAI", "LocalAI", "Claude">>

Providers == {ProviderOrder[i] : i \in 1..Len(ProviderOrder)}

IndexOf(p) == CHOOSE i \in 1..Len(ProviderOrder) : ProviderOrder[i] = p

\* const apiKey = process.env.X; if (!apiKey) throw ...   (_callLocalAI reads no key)
KeyMissing(p, e) ==
    CASE p = "OpenAI"  -> ~Truthy(e.OPENAI_API_KEY)
      [] p = "Claude"  -> ~Truthy(e.ANTHROPIC_API_KEY)
      [] p = "LocalAI" -> FALSE

MissingKeyError(p) ==
    CASE p = "OpenAI"  -> "OpenAI API key not configured"
      [] p = "Claude"  -> "Anthropic API key not configured"
      [] p = "LocalAI" -> "none"

\* the text a provider generates for a prompt
ProviderText(p) == <<"text generated by ", p>>

\* `|| 'No response from ...'`
NoResponseText(p) ==
    CASE p = "OpenAI"  -> <<"No response from OpenAI">>
      [] p = "LocalAI" -> <<"No response from local AI">>
      [] p = "Claude"  -> <<"No response from Claude">>

\* What the network gives back to one call: fetch rejects, or resolves with
\* a status; response.json() rejects, or yields null, or yields a value in
\* which the field at the fixed path (choices[0].message.content / response /
\* content[0].text) is absent, empty or a text.
Replies(p) ==
    {[fetch |-> "rejected", ok |-> FALSE, json |-> "none", field |-> Undefined],
     [fetch |-> "resolved", ok |-> FALSE, json |-> "none", field |-> Undefined],
     [fetch |-> "resolved", ok |-> TRUE, json |-> "rejected", field |-> Undefined],
     [fetch |-> "resolved", ok |-> TRUE, json |-> "null", field |-> Undefined]}
    \cup {[fetch |-> "resolved", ok |-> TRUE, json |-> "value", field |-> f] :
            f \in {Undefined, <<>>, ProviderText(p)}}

\* the extraction without its `|| '...'` default
ExtractText_NoDefault(p, reply) == reply.field

\* data.choices?.[0]?.message?.content || 'No response from OpenAI' (and the
\* like): reading a property of null throws
ExtractText(p, reply) == IF Truthy(reply.field) THEN reply.field ELSE NoResponseText(p)

\* a call that throws when the field at the fixed path is absent or empty
callProvider_StrictShape(p, reply) ==
    IF reply.fetch = "rejected"
    THEN [threw |-> TRUE, error |-> "fetch failed", value |-> <<>>]
    ELSE IF ~reply.ok
    THEN [threw |-> TRUE, error |-> "API error: status", value |-> <<>>]
    ELSE IF reply.json = "rejected"
    THEN [threw |-> TRUE, error |-> "SyntaxError", value |-> <<>>]
    ELSE IF reply.json = "null" \/ ~Truthy(reply.field)
    THEN [threw |-> TRUE, error |-> "TypeError", value |-> <<>>]
    ELSE [threw |-> FALSE, error |-> "none", value |-> reply.field]

\* _callOpenAI / _callLocalAI / _callClaudeAPI after the key check, given
\* the reply of the network: the value returned or the error thrown
callProvider(p, reply) ==
    IF reply.fetch = "rejected"
    THEN [threw |-> TRUE, error |-> "fetch failed", value |-> <<>>]
    ELSE IF ~reply.ok
    THEN [threw |-> TRUE, error |-> "API error: status", value |-> <<>>]
    ELSE IF reply.json = "rejected"
    THEN [threw |-> TRUE, error |-> "SyntaxError", value |-> <<>>]
    ELSE IF reply.json = "null"
    THEN [threw |-> TRUE, error |-> "TypeError", value |-> <<>>]
    ELSE [threw |-> FALSE, error |-> "none", value |-> ExtractText(p, reply)]

\* _getAIResponse from its i-th try block on: the providers called before
\* the function next waits on the network (a missing key throws at once and
\* the catch goes on to the next block), and the index of the provider
\* waited on, 0 when the blocks are exhausted
RECURSIVE TryFrom(_, _)
TryFrom(i, e) ==
    IF i > Len(ProviderOrder) THEN [calls |-> <<>>, waitOn |-> 0, error |-> "none"]
    ELSE IF KeyMissing(ProviderOrder[i], e)
         THEN LET rest == TryFrom(i + 1, e)
              IN  [calls |-> <<ProviderOrder[i]>> \o rest.calls, waitOn |-> rest.waitOn,
                   error |-> IF rest.error = "none" THEN MissingKeyError(ProviderOrder[i])
                             ELSE rest.error]
         ELSE [calls |-> <<ProviderOrder[i]>>, waitOn |-> i, error |-> "none"]

\* throw new Error('All AI services unavailable')
AllUnavailable == "All AI services unavailable"

-----------------------------------------------------------------------------
(* State *)

Req == 1..MaxRequests

\* the values an API key variable of the environment can have
KeyValues == {Undefined, <<>>, <<"sk-key">>}

\* what the webview can send: sendChatMessage and generateContent trim the
\* text and send nothing when it is empty
ChatMessages == {<<"h","i">>, <<"Q","u","i","z">>}
Topics == {<<"A","I">>}
Domains == {<<"Technology">>}
\* the five options of the contentType select, and a type that is none of them
ContentTypes == KnownTypes \cup {"poem"}

\* no call of the invocation has settled on a reply of the network
NoReply == [fetch |-> "none", ok |-> FALSE, json |-> "none", field |-> Undefined]

IdleRequest ==
    [pc |-> "idle", kind |-> "none", msg |-> <<>>, type |-> "none",
     topic |-> <<>>, domain |-> <<>>, prompt |-> <<>>,
     calls |-> <<>>, inflight |-> {}, lastErr |-> "none",
     reply |-> NoReply, callValue |-> <<>>,
     chain |-> "none", chainError |-> "none", result |-> <<>>,
     fallback |-> FALSE, posts |-> <<>>, panel |-> 0]

NoFallbackCall ==
    [fn |-> "none", msg |-> <<>>, project |-> [mainTopic |-> Undefined, domain |-> Undefined,
     generatedFiles |-> <<>>], rnd |-> <<0, 1>>, out |-> Undefined]

\* the state after activation, before any message of a webview
Activated ==
    /\ recentActivities = <<>>
    /\ currentProject = [mainTopic |-> Undefined, domain |-> Undefined, generatedFiles |-> <<>>]
    /\ req = [r \in Req |-> IdleRequest]
    /\ fb = NoFallbackCall
    /\ appended = <<>>
    /\ webview = [panel |-> <<>>, sidebar |-> <<>>]

\* VS Code at activation: no panel yet, a workspace folder open or not, and
\* (in this model) an empty workspace.  panel: BookWritingPanel.currentPanel
\* is defined; live: the panels created and not disposed of, numbered as
\* they were created; dirs and files are those of the
\* workspace folder (files: path -> content), notices the messages shown,
\* opening the files whose handler waits for the editor, calls the
\* 'createMarkdownFile' messages handled so far
HostAtStart(workspaceOpen) ==
    [panel |-> FALSE, live |-> {}, created |-> 0, workspaceOpen |-> workspaceOpen, dirs |-> {},
     files |-> <<>>, notices |-> <<>>, opening |-> <<>>, calls |-> <<>>]

\* the Book Writing panel was opened by its command
PanelShown == [HostAtStart(TRUE) EXCEPT !.panel = TRUE, !.live = {1}, !.created = 1]

\* the environments of the interleaved runs: each key is unset, empty or set in one of them
PanelEnvs ==
    {[OPENAI_API_KEY |-> Undefined, ANTHROPIC_API_KEY |-> Undefined],
     [OPENAI_API_KEY |-> <<>>, ANTHROPIC_API_KEY |-> <<"sk-key">>],
     [OPENAI_API_KEY |-> <<"sk-key">>, ANTHROPIC_API_KEY |-> <<>>],
     [OPENAI_API_KEY |-> <<"sk-key">>, ANTHROPIC_API_KEY |-> <<"sk-key">>]}

Init == env \in PanelEnvs /\ Activated /\ host = PanelShown

InitChain ==
    /\ env \in [OPENAI_API_KEY : KeyValues, ANTHROPIC_API_KEY : KeyValues]
    /\ Activated
    /\ host = PanelShown

-----------------------------------------------------------------------------
(* _getAIResponse *)

\* all providers that have a key called at once
ChainStart_Race(e) ==
    [calls |-> <<"OpenAI", "LocalAI", "Claude">>,
     inflight |-> {p \in {"OpenAI", "LocalAI", "Claude"} : ~KeyMissing(p, e)},
     lastErr |-> "none", reply |-> NoReply, callValue |-> <<>>,
     chain |-> "running", chainError |-> "none", result |-> <<>>]

\* _getAIResponse(prompt) entered: the state of the invocation when it first
\* waits on the network (_callLocalAI reads no key, so it always does)
ChainStart(e) ==
    LET t == TryFrom(1, e)
    IN  [calls |-> t.calls, inflight |-> {ProviderOrder[t.waitOn]}, lastErr |-> t.error,
         reply |-> NoReply, callValue |-> <<>>,
         chain |-> "running", chainError |-> "none", result |-> <<>>]

\* `await this._callX(prompt)` without the `return`: the later try blocks run too
ChainReturn_CallsRest(c, reply, value) ==
    [c EXCEPT !.inflight = {}, !.lastErr = "none", !.reply = reply, !.callValue = value,
              !.calls = @ \o SubSeq(<<"OpenAI", "LocalAI", "Claude">>, Len(@) + 1, 3),
              !.chain = "returned", !.result = value]

\* the awaited call of a provider returned `value`: return await this._callX(prompt)
ChainReturn(c, reply, value) ==
    [c EXCEPT !.inflight = {}, !.lastErr = "none", !.reply = reply, !.callValue = value,
              !.chain = "returned", !.result = value]

\* a catch block that rethrows the provider's error
ChainCatch_Rethrow(c, p, reply, error, e) ==
    [c EXCEPT !.reply = reply, !.lastErr = error, !.inflight = {},
              !.chain = "thrown", !.chainError = error]

\* the awaited call of provider p threw `error`: the catch block logs it and
\* the next try block runs; after the last one the function throws
ChainCatch(c, p, reply, error, e) ==
    LET t == TryFrom(IndexOf(p) + 1, e)
        d == [c EXCEPT !.calls = @ \o t.calls, !.reply = reply,
                       !.lastErr = IF t.error = "none" THEN error ELSE t.error]
    IN  IF t.waitOn = 0
        THEN [d EXCEPT !.inflight = {}, !.chain = "thrown", !.chainError = AllUnavailable]
        ELSE [d EXCEPT !.inflight = {ProviderOrder[t.waitOn]}]

\* the fields of a request that belong to its _getAIResponse invocation
ChainOf(q) ==
    [calls |-> q.calls, inflight |-> q.inflight, lastErr |-> q.lastErr,
     reply |-> q.reply, callValue |-> q.callValue,
     chain |-> q.chain, chainError |-> q.chainError, result |-> q.result]

WithChain(q, c) ==
    [q EXCEPT !.calls = c.calls, !.inflight = c.inflight, !.lastErr = c.lastErr,
              !.reply = c.reply, !.callValue = c.callValue,
              !.chain = c.chain, !.chainError = c.chainError, !.result = c.result]

-----------------------------------------------------------------------------
(* The message handlers of BookWritingPanel *)

\* requests are numbered in the order the webview's messages arrive
NextToArrive(r) == req[r].pc = "idle" /\ (IF r = 1 THEN TRUE ELSE req[r - 1].pc # "idle")

ChatPost(command, text) == [command |-> command, sender |-> "assistant", text |-> text]

\* _handleChatMessage, after the chain settled: the reply posted
ChatReply(aiResponse) == ChatPost("replaceChatMessage", aiResponse)

\* _handleContentGeneration, after the generator returned
ContentPost(type, topic, content) ==
    [command |-> "contentGenerated", content |-> content,
     filename |-> sanitizeFilename(topic) \o FilenameSuffix(type), type |-> type]

\* the webview's message listener: addChatMessage appends an element
\* (r: the request it was added for), replaceChatMessage rewrites the last
\* element of class assistant-message, if there is one
OnWebviewMessage(chat, message, r) ==
    LET assistant == {i \in 1..Len(chat) : chat[i].sender = "assistant"}
        last == CHOOSE i \in assistant : \A j \in assistant : j <= i
    IN  IF message.command = "addChatMessage"
        THEN Append(chat, [sender |-> message.sender, text |-> message.text,
                           addedFor |-> r, replacedFor |-> 0])
        ELSE IF message.command = "replaceChatMessage" /\ assistant # {}
        THEN [chat EXCEPT ![last].text = message.text, ![last].replacedFor = r]
        ELSE chat

\* this._panel.webview.postMessage(message) / this._view.webview.postMessage(message)
\* of request r (q): the message reaches the webview of the sidebar, or that
\* of the request's panel unless the panel was disposed of
postMessage(w, q, r, message) ==
    IF q.kind = "sidebar"
    THEN [w EXCEPT !.sidebar = OnWebviewMessage(@, message, r)]
    ELSE IF q.kind \in {"chat", "gen"} /\ q.panel \in host.live
    THEN [w EXCEPT !.panel = OnWebviewMessage(@, message, r)]
    ELSE w

\* a handler that does not record the message in the session context
ReceiveSendMessage_LogsNothing(r, userMessage) ==
    /\ NextToArrive(r)
    /\ LET q == [IdleRequest EXCEPT
                   !.pc = "await", !.kind = "chat", !.msg = userMessage,
                   !.posts = <<ChatPost("addChatMessage", <<"Writing...">>)>>,
                   !.prompt = BookWritingPrompt(userMessage,
                                 getContextSummary(recentActivities, currentProject))]
       IN  req' = [req EXCEPT ![r] = WithChain(q, ChainStart(env))]
    /\ UNCHANGED <<env, recentActivities, currentProject, fb, host, appended, webview>>

\* a handler that assembles the prompt before it records the message
ReceiveSendMessage_PromptFirst(r, userMessage) ==
    /\ NextToArrive(r)
    /\ LET log == addToContext(recentActivities, "chat",
                               <<"User asked: \"">> \o userMessage \o <<"\"">>)
           q   == [IdleRequest EXCEPT
                     !.pc = "await", !.kind = "chat", !.msg = userMessage,
                     !.panel = host.created,
                     !.posts = <<ChatPost("addChatMessage", <<"Writing...">>)>>,
                     !.prompt = BookWritingPrompt(userMessage,
                                   getContextSummary(recentActivities, currentProject))]
       IN  /\ recentActivities' = log
           /\ req' = [req EXCEPT ![r] = WithChain(q, ChainStart(env))]
           /\ webview' = postMessage(webview, q, r, q.posts[1])
    /\ appended' = Append(appended,
                          [action |-> "chat",
                           details |-> <<"User asked: \"">> \o userMessage \o <<"\"">>])
    /\ UNCHANGED <<env, currentProject, fb, host>>

\* 'sendMessage' -> _handleChatMessage(text), up to the first await on the network
ReceiveSendMessage(r, userMessage) ==
    /\ NextToArrive(r)
    /\ LET log == addToContext(recentActivities, "chat",
                               <<"User asked: \"">> \o userMessage \o <<"\"">>)
           q   == [IdleRequest EXCEPT
                     !.pc = "await", !.kind = "chat", !.msg = userMessage,
                     !.panel = host.created,
                     !.posts = <<ChatPost("addChatMessage", <<"Writing...">>)>>,
                     !.prompt = BookWritingPrompt(userMessage,
                                                  getContextSummary(log, currentProject))]
       IN  /\ recentActivities' = log
           /\ req' = [req EXCEPT ![r] = WithChain(q, ChainStart(env))]
           /\ webview' = postMessage(webview, q, r, q.posts[1])
    /\ appended' = Append(appended,
                          [action |-> "chat",
                           details |-> <<"User asked: \"">> \o userMessage \o <<"\"">>])
    /\ UNCHANGED <<env, currentProject, fb, host>>

\* 'generateContent' -> _handleContentGeneration(type, topic, domain), up to
\* the first await on the network; an unknown type throws in the switch and
\* the catch posts showError
ReceiveGenerateContent(r, type, topic, domain) ==
    /\ NextToArrive(r)
    /\ LET log     == addToContext(recentActivities, "content_generation",
                                   <<"Generating ", type, " for \"">> \o topic \o <<"\" in ">>
                                   \o domain \o <<" domain">>)
           project == updateProjectContext(currentProject, topic, domain)
           loading == [command |-> "showLoading",
                       message |-> <<"Generating ", type, " for \"">> \o topic \o <<"\" in ">>
                                   \o domain \o <<" domain...">>]
           q       == [IdleRequest EXCEPT
                         !.kind = "gen", !.type = type, !.topic = topic, !.domain = domain,
                         !.panel = host.created,
                         !.posts = <<loading>>]
       IN  /\ recentActivities' = log
           /\ currentProject' = project
           /\ IF type \in KnownTypes
              THEN req' = [req EXCEPT ![r] =
                            WithChain([q EXCEPT !.pc = "await",
                                         !.prompt = GeneratorPrompt(type, topic, domain,
                                                       getContextSummary(log, project))],
                                      ChainStart(env))]
              ELSE req' = [req EXCEPT ![r] =
                            [q EXCEPT !.pc = "done",
                               !.posts = Append(@, [command |-> "showError",
                                   message |-> <<"Failed to generate content: ",
                                                 "Error: Unknown content type">>])]]
    /\ appended' = Append(appended,
                          [action |-> "content_generation",
                           details |-> <<"Generating ", type, " for \"">> \o topic
                                       \o <<"\" in ">> \o domain \o <<" domain">>])
    /\ UNCHANGED <<env, fb, host, webview>>

\* what the user can have typed into the chat input and into the topic
\* input when pressing Enter or the button: nothing, blanks, a text with
\* blanks around it, a text
ChatInputs == {<<>>, <<" ", " ">>, <<" ","h","i"," ">>, <<"Q","u","i","z">>}
TopicInputs == {<<>>, <<" ">>, <<"A","I"," ">>}

\* a webview that posts whatever the input holds
sendChatMessage_NoCheck(r, input) == host.panel /\ ReceiveSendMessage(r, input)

\* webview: sendChatMessage() - the input is trimmed and posted as
\* 'sendMessage' unless it is empty; the host then runs _handleChatMessage.
\* The webview exists while its panel does.
sendChatMessage(r, input) ==
    LET message == Trim(input)
    IN  /\ host.panel
        /\ message # <<>>
        /\ ReceiveSendMessage(r, message)

\* webview: generateContent() - the topic is trimmed and the request is
\* posted unless the topic is empty; the host then runs _handleContentGeneration
generateContent(r, type, topicInput, domain) ==
    LET topic == Trim(topicInput)
    IN  /\ host.panel
        /\ topic # <<>>
        /\ ReceiveGenerateContent(r, type, topic, domain)

\* the provider waited on
Awaited(r) == IF req[r].inflight = {} THEN "none" ELSE CHOOSE p \in req[r].inflight : TRUE

\* the handler posts its last message and returns
Deliver(q, post) == [q EXCEPT !.pc = "done", !.posts = Append(@, post)]

\* generators without their try/catch: the error reaches the catch block of
\* _handleContentGeneration
OnChainThrown_NoGeneratorCatch(q, project, rnd) ==
    IF q.kind = "chat" THEN ChatReply(getBookWritingFallback(q.msg, project, rnd))
    ELSE [command |-> "showError",
          message |-> <<"Failed to generate content: ",
                        "Error: All AI services unavailable">>]

\* a catch block that hands the assembled prompt to the responder
OnChainThrown_UsesPrompt(q, project, rnd) ==
    IF q.kind = "chat" THEN ChatReply(getBookWritingFallback(q.prompt, project, rnd))
    ELSE ContentPost(q.type, q.topic, ContentTemplate(q.type, q.topic, q.domain))

\* _getAIResponse threw.  The catch block of _handleChatMessage posts
\* _getBookWritingFallback(userMessage); the catch block of a _generate*
\* method returns its template, which _handleContentGeneration posts.
OnChainThrown(q, project, rnd) ==
    IF q.kind = "chat" THEN ChatReply(getBookWritingFallback(q.msg, project, rnd))
    ELSE IF q.kind = "sidebar" THEN ChatReply(getSidebarFallback(q.msg, project, rnd))
    ELSE ContentPost(q.type, q.topic, ContentTemplate(q.type, q.topic, q.domain))

\* _getAIResponse returned aiResponse / content: the handler posts it
OnChainReturned(q, text) ==
    IF q.kind \in {"chat", "sidebar"} THEN ChatReply(text) ELSE ContentPost(q.type, q.topic, text)

Rnd == {<<k, RandSteps>> : k \in 0..(RandSteps - 1)}

\* the awaited provider call returns a value: _getAIResponse returns it
ProviderReturns(r, reply) ==
    /\ req[r].pc = "await"
    /\ LET res == callProvider(Awaited(r), reply)
           c   == ChainReturn(ChainOf(req[r]), reply, res.value)
       IN  /\ ~res.threw
           /\ req' = [req EXCEPT ![r] = Deliver(WithChain(req[r], c),
                                                OnChainReturned(req[r], c.result))]
           /\ webview' = postMessage(webview, req[r], r, OnChainReturned(req[r], c.result))
    /\ UNCHANGED <<env, recentActivities, currentProject, fb, host, appended>>

\* the wait for a provider is given up after a while, no reply having arrived
ProviderFails_Timeout(r, reply) ==
    /\ req[r].pc = "await"
    /\ LET c == ChainCatch(ChainOf(req[r]), Awaited(r), NoReply, "timeout", env)
       IN  /\ c.chain = "running"
           /\ req' = [req EXCEPT ![r] = WithChain(req[r], c)]
    /\ UNCHANGED <<env, recentActivities, currentProject, fb, host, appended, webview>>

\* catch blocks that record the failure in the session's activity log
ProviderFails_LogsFailure(r, reply) ==
    /\ req[r].pc = "await"
    /\ LET res == callProvider(Awaited(r), reply)
           c   == ChainCatch(ChainOf(req[r]), Awaited(r), reply, res.error, env)
       IN  /\ res.threw
           /\ c.chain = "running"
           /\ req' = [req EXCEPT ![r] = WithChain(req[r], c)]
           /\ recentActivities' = addToContext(recentActivities, "chat", <<res.error>>)
           /\ appended' = Append(appended, [action |-> "chat", details |-> <<res.error>>])
    /\ UNCHANGED <<env, currentProject, fb, host, webview>>

\* the awaited provider call throws and a later provider is waited on
ProviderFails(r, reply) ==
    /\ req[r].pc = "await"
    /\ LET res == callProvider(Awaited(r), reply)
           c   == ChainCatch(ChainOf(req[r]), Awaited(r), reply, res.error, env)
       IN  /\ res.threw
           /\ c.chain = "running"
           /\ req' = [req EXCEPT ![r] = WithChain(req[r], c)]
    /\ UNCHANGED <<env, recentActivities, currentProject, fb, host, appended, webview>>

\* a catch block that logs the error and posts nothing
AllProvidersFailed_OnlyLogs(r, reply, rnd) ==
    /\ req[r].pc = "await"
    /\ LET res == callProvider(Awaited(r), reply)
           c   == ChainCatch(ChainOf(req[r]), Awaited(r), reply, res.error, env)
       IN  /\ res.threw
           /\ c.chain = "thrown"
           /\ req' = [req EXCEPT ![r] = [WithChain(req[r], c) EXCEPT !.pc = "done"]]
    /\ UNCHANGED <<env, recentActivities, currentProject, fb, host, appended, webview>>

\* the awaited provider call throws and no provider is left: _getAIResponse
\* throws, its caller catches and falls back
AllProvidersFailed(r, reply, rnd) ==
    /\ req[r].pc = "await"
    /\ LET res == callProvider(Awaited(r), reply)
           c   == ChainCatch(ChainOf(req[r]), Awaited(r), reply, res.error, env)
           q   == [WithChain(req[r], c) EXCEPT !.fallback = TRUE]
       IN  /\ res.threw
           /\ c.chain = "thrown"
           /\ req' = [req EXCEPT ![r] = Deliver(q, OnChainThrown(q, currentProject, rnd))]
           /\ webview' = postMessage(webview, q, r, OnChainThrown(q, currentProject, rnd))
    /\ UNCHANGED <<env, recentActivities, currentProject, fb, host, appended>>

\* ChatRobotPanel: 'sendMessage' -> _handleUserMessage(text), up to the await
\* of vscode.commands.executeCommand('github.copilot.generate', ...) in
\* _getAIResponse
ReceiveRobotMessage(r, userMessage) ==
    /\ NextToArrive(r)
    /\ req' = [req EXCEPT ![r] =
                 [IdleRequest EXCEPT
                    !.pc = "command", !.kind = "robot", !.msg = userMessage,
                    !.prompt = <<"You are a helpful coding assistant. The user said: \"">>
                               \o userMessage
                               \o <<"\". Respond helpfully and concisely.">>,
                    !.posts = <<[command |-> "addMessage", sender |-> "bot",
                                 text |-> <<"Thinking...">>]>>]]
    /\ UNCHANGED <<env, recentActivities, currentProject, fb, host, appended, webview>>

\* a _getAIResponse that returns what the command resolved with
RobotCommandSettles_ReturnsResult(r, resolved, rnd) ==
    /\ req[r].pc = "command"
    /\ req' = [req EXCEPT ![r] =
                 Deliver([req[r] EXCEPT !.fallback = ~resolved],
                         [command |-> "replaceLastMessage", sender |-> "bot",
                          text |-> IF resolved THEN <<"text generated by ", "Copilot">>
                                   ELSE getSmartFallbackResponse(req[r].msg, rnd)])]
    /\ UNCHANGED <<env, recentActivities, currentProject, fb, host, appended, webview>>

\* the command resolved or rejected (a rejection is caught and logged):
\* _getAIResponse throws 'AI services not available', the catch block of
\* _handleUserMessage posts _getSmartFallbackResponse(userMessage)
RobotCommandSettles(r, resolved, rnd) ==
    /\ req[r].pc = "command"
    /\ req' = [req EXCEPT ![r] =
                 Deliver([req[r] EXCEPT !.fallback = TRUE],
                         [command |-> "replaceLastMessage", sender |-> "bot",
                          text |-> getSmartFallbackResponse(req[r].msg, rnd)])]
    /\ UNCHANGED <<env, recentActivities, currentProject, fb, host, appended, webview>>

\* what the user types into the Chat Robot panel (sendMessage trims it)
RobotMessages ==
    {<<"H","o","w"," ","d","o"," ","I"," ","d","e","b","u","g"," ","m","y"," ","c","o","d","e","?">>,
     <<"h","e","l","l","o">>}

\* Interleaved requests of one panel: a few inputs, any number of them in
\* flight; a call either fails on the network or returns a text
PanelMessages == {<<"h","i">>, <<"Q","u","i","z">>}
PanelTypes == {"quiz", "poem"}
PanelReplies(p) == {reply \in Replies(p) : reply.fetch = "rejected" \/ Truthy(reply.field)}

Next ==
    \/ \E r \in Req, input \in ChatInputs : sendChatMessage(r, input)
    \/ \E r \in Req, ty \in PanelTypes, input \in TopicInputs, d \in Domains :
          generateContent(r, ty, input, d)
    \/ \E r \in Req : \E reply \in PanelReplies(Awaited(r)) : ProviderReturns(r, reply)
    \/ \E r \in Req : \E reply \in PanelReplies(Awaited(r)) : ProviderFails(r, reply)
    \/ \E r \in Req : \E reply \in PanelReplies(Awaited(r)), rnd \in Rnd :
          AllProvidersFailed(r, reply, rnd)

Spec == Init /\ [][Next]_vars

\* One request, every input and every reply: a single invocation of a
\* handler and of the chain
NextChain ==
    \/ \E input \in ChatInputs : sendChatMessage(1, input)
    \/ \E ty \in ContentTypes, input \in TopicInputs, d \in Domains :
          generateContent(1, ty, input, d)
    \/ \E reply \in Replies(Awaited(1)) : ProviderReturns(1, reply)
    \/ \E reply \in Replies(Awaited(1)) : ProviderFails(1, reply)
    \/ \E reply \in Replies(Awaited(1)), rnd \in Rnd : AllProvidersFailed(1, reply, rnd)
    \/ \E m \in RobotMessages : ReceiveRobotMessage(1, m)
    \/ \E resolved \in BOOLEAN, rnd \in Rnd : RobotCommandSettles(1, resolved, rnd)

SpecChain == InitChain /\ [][NextChain]_vars

\* the provider call request r waits for settles, with a result or a failure
Settles(r) ==
    \/ \E reply \in Replies(Awaited(r)) : ProviderReturns(r, reply)
    \/ \E reply \in Replies(Awaited(r)) : ProviderFails(r, reply)
    \/ \E reply \in Replies(Awaited(r)), rnd \in Rnd : AllProvidersFailed(r, reply, rnd)

\* the same, every pending provider call and command settling in the end:
\* fetch or executeCommand resolves or rejects, and the event loop then runs
\* the continuation of the handler
SpecSettling ==
    /\ SpecChain
    /\ WF_vars(Settles(1))
    /\ WF_vars(\E resolved \in BOOLEAN, rnd \in Rnd : RobotCommandSettles(1, resolved, rnd))

\* Providers that echo: a call fails on the network or answers with the
\* prompt it was sent
EchoReplies(r) ==
    {reply \in Replies(Awaited(r)) : reply.fetch = "rejected"}
    \cup {[fetch |-> "resolved", ok |-> TRUE, json |-> "value", field |-> req[r].prompt]}

NextEcho ==
    \/ \E r \in Req, input \in ChatInputs : sendChatMessage(r, input)
    \/ \E r \in Req, ty \in PanelTypes, input \in TopicInputs, d \in Domains :
          generateContent(r, ty, input, d)
    \/ \E r \in Req : \E reply \in EchoReplies(r) : ProviderReturns(r, reply)
    \/ \E r \in Req : \E reply \in EchoReplies(r) : ProviderFails(r, reply)
    \/ \E r \in Req : \E reply \in EchoReplies(r), rnd \in Rnd :
          AllProvidersFailed(r, reply, rnd)

SpecEcho == Init /\ [][NextEcho]_vars

-----------------------------------------------------------------------------
(* Direct calls of the offline responders: one call per behaviour *)

Keywords ==
    {KwOutline, KwStructure, KwLesson, KwContent, KwExercise, KwPractice, KwQuiz, KwTest,
     KwAssessment, KwSummary, KwReview, KwCode, KwFunction, KwVariable, KwDebug, KwVscode,
     KwExtension, KwEditor, KwWorkspace, KwHow, KwWhat, KwWhy, KwHello, KwHi, KwHey, KwGood,
     KwQuestionMark}

SampleMessages ==
    {<<>>,
     <<" ">>,
     <<" "," ">>,
     <<"d","e","b","u","g">>,
     <<"h","e","l","l","o">>,
     <<"H","E","L","L","O">>,
     <<"H","o","w"," ","d","o"," ","I"," ","d","e","b","u","g"," ","m","y"," ","c","o","d","e","?">>,
     <<"g","o","o","d"," ","c","o","d","e">>,
     <<"w","h","a","t"," ","e","x","t","e","n","s","i","o","n">>,
     <<"H","e","y"," ","V","S","C","o","d","e">>,
     <<"t","h","i","s">>,
     <<"n","o","t","h","i","n","g">>,
     <<"m","y"," ","l","e","s","s","o","n"," ","c","o","n","t","e","n","t">>,
     <<"P","r","a","c","t","i","c","e"," ","T","e","s","t">>,
     <<"a","n"," ","o","u","t","l","i","n","e",","," ","p","l","e","a","s","e">>,
     <<"t","e","l","l"," ","m","e"," ","m","o","r","e">>}

MsgAlphabet == {"h", "i", "H", "?", " "}

ShortMessages == UNION {[1..n -> MsgAlphabet] : n \in 0..MaxMsgLen}

\* the messages the responders are called with: the empty string,
\* whitespace, every keyword, some sentences, every short string
FallbackMessages == Keywords \cup SampleMessages \cup ShortMessages

NoProject == [mainTopic |-> Undefined, domain |-> Undefined, generatedFiles |-> <<>>]

\* the project contexts a session can be in when a responder is called
FallbackProjects ==
    {NoProject} \cup {[mainTopic |-> t, domain |-> d, generatedFiles |-> f] :
                        t \in Topics, d \in Domains, f \in {<<>>, <<<<"ai", "-quiz.md">>>>}}

FineRnd == {<<k, FineSteps>> : k \in 0..(FineSteps - 1)}

InitFallback ==
    /\ env = [OPENAI_API_KEY |-> Undefined, ANTHROPIC_API_KEY |-> Undefined]
    /\ Activated
    /\ host = PanelShown

\* ChatRobotPanel: this._getSmartFallbackResponse(userMessage)
CallSmartFallback(m, rnd) ==
    /\ fb.fn = "none"
    /\ fb' = [fn |-> "smart", msg |-> m, project |-> NoProject, rnd |-> rnd,
              out |-> getSmartFallbackResponse(m, rnd)]
    /\ UNCHANGED <<env, recentActivities, currentProject, req, host, appended, webview>>

\* BookWritingPanel: this._getBookWritingFallback(userMessage)
CallBookWritingFallback(m, project, rnd) ==
    /\ fb.fn = "none"
    /\ fb' = [fn |-> "panel", msg |-> m, project |-> project, rnd |-> rnd,
              out |-> getBookWritingFallback(m, project, rnd)]
    /\ UNCHANGED <<env, recentActivities, currentProject, req, host, appended, webview>>

\* BookWritingChatProvider: this._getBookWritingFallback(userMessage)
CallSidebarFallback(m, project, rnd) ==
    /\ fb.fn = "none"
    /\ fb' = [fn |-> "sidebar", msg |-> m, project |-> project, rnd |-> rnd,
              out |-> getSidebarFallback(m, project, rnd)]
    /\ UNCHANGED <<env, recentActivities, currentProject, req, host, appended, webview>>

\* the earlier revision's BookWritingPanel: this._getBookWritingFallback(userMessage)
CallStaticFallback(m, rnd) ==
    /\ fb.fn = "none"
    /\ fb' = [fn |-> "static", msg |-> m, project |-> NoProject, rnd |-> rnd,
              out |-> getBookWritingFallbackStatic(m, rnd)]
    /\ UNCHANGED <<env, recentActivities, currentProject, req, host, appended, webview>>

\* Direct calls of SessionContextManager.addToContext, in any order
LogInputs ==
    {[action |-> "chat", details |-> <<"User asked: \"", "h", "i", "\"">>],
     [action |-> "file_creation", details |-> <<"Created file: ", "ai-quiz.md">>]}

CallAddToContext(action, details) ==
    /\ Len(appended) < MaxAppends
    /\ recentActivities' = addToContext(recentActivities, action, details)
    /\ appended' = Append(appended, [action |-> action, details |-> details])
    /\ UNCHANGED <<env, currentProject, req, fb, host, webview>>

NextLog == \E in \in LogInputs : CallAddToContext(in.action, in.details)

SpecLog == InitFallback /\ [][NextLog]_vars

NextFallback ==
    \/ \E m \in FallbackMessages, rnd \in FineRnd : CallStaticFallback(m, rnd)
    \/ \E m \in FallbackMessages, rnd \in FineRnd : CallSmartFallback(m, rnd)
    \/ \E m \in FallbackMessages, p \in FallbackProjects, rnd \in FineRnd :
          CallBookWritingFallback(m, p, rnd)
    \/ \E m \in FallbackMessages, p \in FallbackProjects, rnd \in FineRnd :
          CallSidebarFallback(m, p, rnd)

SpecFallback == InitFallback /\ [][NextFallback]_vars

-----------------------------------------------------------------------------
(* Direct calls of SessionContextManager, in any order *)

\* fb records the call: its arguments in msg and out
CallUpdateProjectContext(topic, domain) ==
    /\ currentProject' = updateProjectContext(currentProject, topic, domain)
    /\ fb' = [NoFallbackCall EXCEPT !.fn = "updateProjectContext",
                                    !.msg = topic, !.out = domain]
    /\ UNCHANGED <<env, recentActivities, req, host, appended, webview>>

CallAddGeneratedFile(filename) ==
    /\ Len(currentProject.generatedFiles) + Len(appended) < MaxActivities
    /\ currentProject' = addGeneratedFile(currentProject, filename)
    /\ fb' = [NoFallbackCall EXCEPT !.fn = "addGeneratedFile", !.msg = filename]
    /\ UNCHANGED <<env, recentActivities, req, host, appended, webview>>

\* fb records the call: the string returned in out
CallGetContextSummary ==
    /\ fb' = [NoFallbackCall EXCEPT
                !.fn = "getContextSummary",
                !.out = getContextSummary(recentActivities, currentProject)]
    /\ UNCHANGED <<env, recentActivities, currentProject, req, host, appended, webview>>

\* updateProjectContext(topic?, domain?) is given an argument, the empty string
\* or none
NextContext ==
    \/ \E topic \in {Undefined, <<>>, <<"A","I">>, <<"G","o">>},
          domain \in {Undefined, <<>>, <<"Technology">>} :
          CallUpdateProjectContext(topic, domain)
    \/ \E in \in LogInputs :
          /\ Len(currentProject.generatedFiles) + Len(appended) < MaxActivities
          /\ CallAddToContext(in.action, in.details)
    \/ CallAddGeneratedFile(<<"ai", "-quiz.md">>)
    \/ CallGetContextSummary

SpecContext == InitFallback /\ [][NextContext]_vars

-----------------------------------------------------------------------------
(* Direct calls of _sanitizeFilename: one call per behaviour *)

\* BookWritingPanel: this._sanitizeFilename(text)
CallSanitizeFilename(text) ==
    /\ fb.fn = "none"
    /\ fb' = [NoFallbackCall EXCEPT !.fn = "sanitizeFilename", !.msg = text,
                                    !.out = sanitizeFilename(text)]
    /\ UNCHANGED <<env, recentActivities, currentProject, req, host, appended, webview>>

\* the text is any string of up to MaxNameLen characters, of letters, a
\* digit, white space, the hyphen, and characters of paths and file names
NextSanitize ==
    \E text \in UNION {[1..n -> {"A", "b", "1", " ", "\t", "-", ".", "/", "_"}] :
                         n \in 0..MaxNameLen} :
        CallSanitizeFilename(text)

SpecSanitize == InitFallback /\ [][NextSanitize]_vars

-----------------------------------------------------------------------------
(* The session: the sidebar chat view and the panels opened and closed *)

\* BookWritingChatProvider: 'sendMessage' -> _handleChatMessage(text), up to
\* the first await on the network.  _contextManager is
\* SessionContextManager.getInstance(), the instance the panel uses.
ReceiveSidebarMessage(r, userMessage) ==
    /\ NextToArrive(r)
    /\ LET log == addToContext(recentActivities, "chat",
                               <<"User asked: \"">> \o userMessage \o <<"\"">>)
           q   == [IdleRequest EXCEPT
                     !.pc = "await", !.kind = "sidebar", !.msg = userMessage,
                     !.posts = <<ChatPost("addChatMessage", <<"Writing...">>)>>,
                     !.prompt = BookWritingPrompt(userMessage,
                                                  getContextSummary(log, currentProject))]
       IN  /\ recentActivities' = log
           /\ req' = [req EXCEPT ![r] = WithChain(q, ChainStart(env))]
           /\ webview' = postMessage(webview, q, r, q.posts[1])
    /\ appended' = Append(appended,
                          [action |-> "chat",
                           details |-> <<"User asked: \"">> \o userMessage \o <<"\"">>])
    /\ UNCHANGED <<env, currentProject, fb, host>>

\* the webview of the sidebar chat: sendMessage() trims the input and posts
\* it unless it is empty
sendMessage(r, input) ==
    LET text == Trim(input)
    IN  /\ text # <<>>
        /\ ReceiveSidebarMessage(r, text)

\* a dispose() that also starts the session's context afresh
dispose_ClearsContext ==
    /\ host.live # {}
    /\ host' = [host EXCEPT !.panel = FALSE, !.live = {}]
    /\ recentActivities' = <<>>
    /\ currentProject' = [mainTopic |-> Undefined, domain |-> Undefined,
                          generatedFiles |-> <<>>]
    /\ webview' = [webview EXCEPT !.panel = <<>>]
    /\ UNCHANGED <<env, req, fb, appended>>

\* BookWritingPanel.createOrShow(): the panel there is is revealed,
\* otherwise one is created
createOrShow_AlwaysCreates ==
    /\ host.created < MaxPanels
    /\ host' = [host EXCEPT !.panel = TRUE, !.live = @ \cup {host.created + 1},
                            !.created = @ + 1]
    /\ UNCHANGED <<env, recentActivities, currentProject, req, fb, appended, webview>>

\* BookWritingPanel.createOrShow(): the panel there is is revealed,
\* otherwise one is created
createOrShow ==
    /\ host.panel \/ host.created < MaxPanels
    /\ host' = IF host.panel THEN host
               ELSE [host EXCEPT !.panel = TRUE, !.live = @ \cup {host.created + 1},
                                 !.created = @ + 1]
    /\ UNCHANGED <<env, recentActivities, currentProject, req, fb, appended, webview>>

\* the commands whose handler is BookWritingPanel.createOrShow
OpenCommands == {"Author-AI-Assistant.openBookWriting", "Author-AI-Assistant.openChat"}

\* a command of the extension is run from the palette or by the sidebar
executeCommand(command) == command \in OpenCommands /\ createOrShow

\* the user closes panel p: onDidDispose -> BookWritingPanel.dispose():
\* currentPanel = undefined, the webview panel and the disposables are
\* disposed of
dispose ==
    /\ host.live # {}
    /\ \E p \in host.live : host' = [host EXCEPT !.panel = FALSE, !.live = @ \ {p}]
    /\ webview' = [webview EXCEPT !.panel = <<>>]
    /\ UNCHANGED <<env, recentActivities, currentProject, req, fb, appended>>

\* the extension was activated: no panel yet (the key of Claude only is set)
InitSession ==
    /\ env = [OPENAI_API_KEY |-> Undefined, ANTHROPIC_API_KEY |-> <<"sk-key">>]
    /\ Activated
    /\ host = HostAtStart(TRUE)

SessionInputs == {<<" ","h","i"," ">>}

NextSession ==
    \/ \E command \in OpenCommands : executeCommand(command)
    \/ dispose
    \/ \E r \in Req, input \in SessionInputs : sendMessage(r, input)
    \/ \E r \in Req, input \in SessionInputs : sendChatMessage(r, input)
    \/ \E r \in Req, ty \in {"quiz"}, input \in TopicInputs, d \in Domains :
          generateContent(r, ty, input, d)
    \/ \E r \in Req : \E reply \in PanelReplies(Awaited(r)) : ProviderReturns(r, reply)
    \/ \E r \in Req : \E reply \in PanelReplies(Awaited(r)) : ProviderFails(r, reply)
    \/ \E r \in Req : \E reply \in PanelReplies(Awaited(r)), rnd \in Rnd :
          AllProvidersFailed(r, reply, rnd)

SpecSession == InitSession /\ [][NextSession]_vars

-----------------------------------------------------------------------------
(* _createMarkdownFile *)

BookDir == "book-content"

\* path.join(bookDir, filename), from the workspace folder
FilePath(filename) == <<BookDir, "/">> \o filename

\* fs.writeFileSync(filePath, content, 'utf8'): the file is created or replaced
writeFileSync(files, filePath, content) ==
    [f \in DOMAIN files \cup {filePath} |-> IF f = filePath THEN content ELSE files[f]]

NoWorkspaceNotice ==
    [kind |-> "error", text |-> <<"No workspace folder open. Please open a folder first.">>]
FailedNotice == [kind |-> "error", text |-> <<"Failed to create file: ", "<error>">>]
CreatedNotice(filename) == [kind |-> "info", text |-> <<"Created: ">> \o filename]

\* what the file system does with the call: it works, mkdirSync throws
\* (called only if the directory is missing), writeFileSync throws
FsOutcomes == {"ok", "mkdir-throws", "write-throws"}

\* a handler that tracks the file creation before it looks for a workspace folder
createMarkdownFile_TracksFirst(filename, content, fs) ==
    /\ host.panel
    /\ Len(host.calls) < MaxSaves
    /\ fs = "ok"
    /\ recentActivities' = addToContext(recentActivities, "file_creation",
                                        <<"Created file: ">> \o filename)
    /\ currentProject' = addGeneratedFile(currentProject, filename)
    /\ appended' = Append(appended, [action |-> "file_creation",
                                     details |-> <<"Created file: ">> \o filename])
    /\ host' = [host EXCEPT
                  !.calls = Append(@, [filename |-> filename, content |-> content, fs |-> fs]),
                  !.notices = IF host.workspaceOpen THEN @ ELSE Append(@, NoWorkspaceNotice),
                  !.dirs = IF host.workspaceOpen THEN @ \cup {BookDir} ELSE @,
                  !.files = IF host.workspaceOpen
                            THEN writeFileSync(@, FilePath(filename), content) ELSE @,
                  !.opening = IF host.workspaceOpen THEN Append(@, filename) ELSE @]
    /\ UNCHANGED <<env, req, fb, webview>>

\* 'createMarkdownFile' -> _createMarkdownFile(filename, content), up to
\* `await vscode.workspace.openTextDocument(filePath)` or to its return
createMarkdownFile(filename, content, fs) ==
    LET called == [host EXCEPT !.calls = Append(@, [filename |-> filename,
                                                    content |-> content, fs |-> fs])]
    IN  /\ host.panel
        /\ Len(host.calls) < MaxSaves
        /\ fs = "mkdir-throws" => host.workspaceOpen /\ BookDir \notin host.dirs
        /\ fs = "write-throws" => host.workspaceOpen
        /\ IF ~host.workspaceOpen
           THEN /\ host' = [called EXCEPT !.notices = Append(@, NoWorkspaceNotice)]
                /\ UNCHANGED <<recentActivities, currentProject, appended>>
           ELSE IF fs = "mkdir-throws"
           THEN /\ host' = [called EXCEPT !.notices = Append(@, FailedNotice)]
                /\ UNCHANGED <<recentActivities, currentProject, appended>>
           ELSE IF fs = "write-throws"
           THEN /\ host' = [called EXCEPT !.dirs = @ \cup {BookDir},
                                          !.notices = Append(@, FailedNotice)]
                /\ UNCHANGED <<recentActivities, currentProject, appended>>
           ELSE /\ host' = [called EXCEPT
                              !.dirs = @ \cup {BookDir},
                              !.files = writeFileSync(@, FilePath(filename), content),
                              !.opening = Append(@, filename)]
                /\ recentActivities' = addToContext(recentActivities, "file_creation",
                                                    <<"Created file: ">> \o filename)
                /\ currentProject' = addGeneratedFile(currentProject, filename)
                /\ appended' = Append(appended,
                                      [action |-> "file_creation",
                                       details |-> <<"Created file: ">> \o filename])
        /\ UNCHANGED <<env, req, fb, webview>>

\* the sequence without its i-th element
RemoveAt(s, i) == SubSeq(s, 1, i - 1) \o SubSeq(s, i + 1, Len(s))

\* openTextDocument / showTextDocument settled: the file is shown and
\* `Created: <filename>` announced, or the error is caught and shown
createMarkdownFileOpened(i, shown) ==
    /\ i \in 1..Len(host.opening)
    /\ host' = [host EXCEPT
                  !.opening = RemoveAt(@, i),
                  !.notices = Append(@, IF shown THEN CreatedNotice(host.opening[i])
                                        ELSE FailedNotice)]
    /\ UNCHANGED <<env, recentActivities, currentProject, req, fb, appended, webview>>

\* the file names and contents a 'showContent' message can have handed to
\* the webview (saveToFile posts them if neither is empty)
SaveFilenames == {<<"ai", "-quiz.md">>, <<"-summary.md">>}
SaveContents == {<<"# Quiz: AI\n">>, <<" \n# Summary\n\n">>}

\* a panel is open; a workspace folder is open or not, book-content exists or not
InitFiles ==
    /\ env = [OPENAI_API_KEY |-> Undefined, ANTHROPIC_API_KEY |-> Undefined]
    /\ Activated
    /\ host \in {[PanelShown EXCEPT !.workspaceOpen = w, !.dirs = d] :
                   w \in BOOLEAN, d \in {{}, {BookDir}}}

NextFiles ==
    \/ \E filename \in SaveFilenames, content \in SaveContents, fs \in FsOutcomes :
          createMarkdownFile(filename, content, fs)
    \/ \E i \in 1..MaxSaves, shown \in BOOLEAN : createMarkdownFileOpened(i, shown)

SpecFiles == InitFiles /\ [][NextFiles]_vars

-----------------------------------------------------------------------------
(* Properties *)

\* a string with at least one character
NonEmptyText(s) == s # Undefined /\ Len(s) > 0 /\ \A i \in 1..Len(s) : s[i] # ""

\* the order in which the documentation lists the services
DocumentedOrder == <<"OpenAI", "LocalAI", "Claude">>

\* the text carried by the message a handler posted last
PostedText(q) ==
    LET post == q.posts[Len(q.posts)]
    IN  IF post.command = "replaceChatMessage" THEN post.text
        ELSE IF post.command = "contentGenerated" THEN post.content
        ELSE Undefined

\* the requests whose _getAIResponse invocation has settled
Settled(r) == req[r].chain \in {"returned", "thrown"}

\* C1 as stated: every invocation of _getAIResponse that settles has returned
\* one non-empty string, whatever the outcomes of the providers, and has
\* thrown nothing to its caller.
C1_ChainNeverThrows ==
    \A r \in Req : Settled(r) =>
        /\ req[r].chain = "returned"
        /\ req[r].chainError = "none"
        /\ NonEmptyText(req[r].result)

\* C1 amended: an invocation of _getAIResponse that settles either returned
\* one non-empty string (a provider's call returned) or threw 'All AI
\* services unavailable' after all three providers had failed; in the second
\* case its caller caught the error and substituted a non-empty offline
\* response.  Either way the request got exactly one non-empty response, and
\* none before the invocation settled.
C1_OneResponsePerRequest ==
    \A r \in Req :
        /\ req[r].chain = "running" => Len(req[r].posts) = 1 /\ req[r].pc = "await"
        /\ Settled(r) =>
            /\ req[r].pc = "done"
            /\ Len(req[r].posts) = 2
            /\ NonEmptyText(PostedText(req[r]))
            /\ \/ /\ req[r].chain = "returned"
                  /\ req[r].chainError = "none"
                  /\ ~req[r].fallback
                  /\ NonEmptyText(req[r].result)
                  /\ PostedText(req[r]) = req[r].result
               \/ /\ req[r].chain = "thrown"
                  /\ req[r].chainError = "All AI services unavailable"
                  /\ req[r].calls = DocumentedOrder
                  /\ req[r].fallback
                  /\ req[r].result = <<>>

\* all three providers failed for a chat message and the handler answered offline
C1_Witness ==
    \E r \in Req :
        /\ req[r].kind = "chat" /\ req[r].pc = "done"
        /\ req[r].chain = "thrown" /\ req[r].fallback
        /\ req[r].reply.json = "rejected"
        /\ NonEmptyText(PostedText(req[r]))

\* C2: when the providers before the k-th fail and the k-th returns a text,
\* _getAIResponse returns that text unchanged, the handler posts it, and the
\* providers invoked are exactly the first k of the order: none after k.
C2_FirstSuccessWins ==
    \A r \in Req :
        (req[r].chain = "returned" /\ NonEmptyText(req[r].reply.field)) =>
            LET text == req[r].reply.field
                k    == CHOOSE i \in 1..3 : DocumentedOrder[i] = text[2]
            IN  /\ req[r].result = text
                /\ PostedText(req[r]) = text
                /\ req[r].calls = SubSeq(DocumentedOrder, 1, k)
                /\ req[r].inflight = {}

\* OpenAI failed and the local model answered: Claude was never called
C2_Witness ==
    \E r \in Req :
        /\ req[r].chain = "returned"
        /\ req[r].calls = <<"OpenAI", "LocalAI">>
        /\ req[r].result = <<"text generated by ", "LocalAI">>
        /\ env.OPENAI_API_KEY = <<"sk-key">>

\* C3: at every moment of every invocation the providers called so far are
\* an initial part of OpenAI, local AI, Claude; the one waited on is the last
\* of them; and the offline response is used only after all three were
\* called and failed.  This holds for every prompt and for invocations
\* that overlap or follow earlier ones.
C3_FixedOrder ==
    \A r \in Req :
        /\ \E k \in 0..3 : req[r].calls = SubSeq(DocumentedOrder, 1, k)
        /\ req[r].chain = "running" =>
              req[r].calls # <<>> /\ req[r].inflight = {req[r].calls[Len(req[r].calls)]}
        /\ req[r].fallback =>
              req[r].calls = DocumentedOrder /\ req[r].chain = "thrown"

\* a second request, made after an earlier one was answered by OpenAI, fell
\* through all three providers to the offline response
C3_Witness ==
    \E r1, r2 \in Req :
        /\ r1 < r2
        /\ req[r1].pc = "done" /\ req[r1].calls = <<"OpenAI">>
        /\ req[r2].fallback /\ req[r2].calls = DocumentedOrder

Range(f) == {f[i] : i \in DOMAIN f}

BookCategories == {"outline", "lesson", "exercise", "quiz", "summary"}

\* the replies of _getBookWritingFallback that mention no project
FixedCatalog == {GenericReply(c) : c \in BookCategories} \cup Range(GenericResponses)

\* its replies for a project: the templates filled in
ProjectCatalog(project) ==
    {ProjectReply(c, project) : c \in BookCategories} \cup Range(ProjectResponses(project))

\* C4 as stated: when all three providers failed for a chat message, the
\* text posted to the user is an entry of the fixed catalog of the offline
\* responder.
C4_FixedCatalogOnly ==
    \A r \in Req :
        (req[r].kind = "chat" /\ req[r].chain = "thrown") =>
            PostedText(req[r]) \in FixedCatalog

\* C4 amended: when the last provider fails for a chat message, the text
\* posted is an entry of the fixed catalog if the session has no project
\* (mainTopic and domain), and otherwise one of the responder's project
\* templates filled in with the current mainTopic and domain.
C4_CatalogOrProjectTemplate ==
    [][\A r \in Req :
          (req[r].kind = "chat" /\ req[r].pc = "await" /\ req'[r].chain = "thrown") =>
              /\ req'[r].fallback
              /\ PostedText(req'[r]) \in
                    (IF hasProject(currentProject) THEN ProjectCatalog(currentProject)
                     ELSE FixedCatalog)]_vars

\* a chat message answered offline after a generation request set the project
C4_Witness ==
    \E r \in Req :
        /\ req[r].kind = "chat" /\ req[r].chain = "thrown" /\ req[r].pc = "done"
        /\ hasProject(currentProject)
        /\ PostedText(req[r]) \in ProjectCatalog(currentProject)
        /\ PostedText(req[r]) \notin FixedCatalog

\* the reply of the network made the call throw
FailingReply(reply) ==
    \/ reply.fetch = "rejected"
    \/ reply.fetch = "resolved" /\ ~reply.ok
    \/ reply.fetch = "resolved" /\ reply.ok /\ reply.json \in {"rejected", "null"}

\* C5: whatever made a provider fail (no key or an empty key, a network
\* error, a non-success status, an exception while reading the body), the
\* error is caught in _getAIResponse and the next provider is waited on, or,
\* after the last one, the offline response is posted; the only error the
\* chain ever throws is 'All AI services unavailable', no error message is
\* posted, and an unset or empty OPENAI_API_KEY still lets the local model
\* be called.
C5_FailuresFallThrough ==
    \A r \in Req :
        /\ req[r].chainError \in {"none", "All AI services unavailable"}
        /\ req[r].chain # "none" =>
              \A i \in 1..Len(req[r].posts) : req[r].posts[i].command # "showError"
        /\ (req[r].chain # "none" /\ ~NonEmptyText(env.OPENAI_API_KEY)) =>
              Len(req[r].calls) >= 2 /\ req[r].calls[2] = "LocalAI"
        /\ (req[r].lastErr # "none" \/ FailingReply(req[r].reply)) =>
              \/ /\ req[r].chain = "running"
                 /\ Len(req[r].calls) >= 2
                 /\ req[r].inflight = {req[r].calls[Len(req[r].calls)]}
              \/ /\ req[r].chain = "thrown"
                 /\ req[r].calls = DocumentedOrder
                 /\ req[r].pc = "done"
                 /\ NonEmptyText(PostedText(req[r]))

\* OpenAI has no key, the body of the local model's reply could not be
\* read, and Claude is being called
C5_Witness ==
    \E r \in Req :
        /\ env.OPENAI_API_KEY = Undefined
        /\ req[r].reply.json = "rejected"
        /\ req[r].lastErr = "SyntaxError"
        /\ req[r].chain = "running"
        /\ req[r].inflight = {"Claude"}

\* a reply with success status whose body has no text at the fixed path
FieldMissing(reply) ==
    /\ reply.fetch = "resolved" /\ reply.ok /\ reply.json = "value"
    /\ ~NonEmptyText(reply.field)

\* C6 as stated: a reply with success status whose text field is absent or
\* empty is a failure of that provider: the chain does not return for it.
C6_MissingFieldIsFailure ==
    \A r \in Req : FieldMissing(req[r].reply) => req[r].chain # "returned"

\* the placeholder of each provider
Placeholder(p) ==
    CASE p = "OpenAI"  -> <<"No response from OpenAI">>
      [] p = "LocalAI" -> <<"No response from local AI">>
      [] p = "Claude"  -> <<"No response from Claude">>

\* C6 amended: a reply with success status whose text field is absent or
\* empty is not a failure: the call returns the provider's placeholder ('No
\* response from ...'), the chain returns it and no later provider is
\* called.  A body that cannot be read as JSON, or that is null, is a
\* failure.
C6_MissingFieldYieldsPlaceholder ==
    \A r \in Req :
        /\ FieldMissing(req[r].reply) =>
              /\ req[r].chain = "returned"
              /\ req[r].calls # <<>>
              /\ req[r].result = Placeholder(req[r].calls[Len(req[r].calls)])
              /\ PostedText(req[r]) = req[r].result
              /\ req[r].inflight = {}
        /\ (req[r].reply.ok /\ req[r].reply.json \in {"rejected", "null"}) =>
              req[r].chain \in {"running", "thrown"}

\* OpenAI answered 200 with no choices: the placeholder is the response
C6_Witness ==
    \E r \in Req :
        /\ req[r].reply.json = "value" /\ req[r].reply.field = Undefined
        /\ req[r].calls = <<"OpenAI">>
        /\ req[r].chain = "returned"
        /\ PostedText(req[r]) = <<"No response from OpenAI">>

\* the options of the content type select
FiveTypes == {"chapter-outline", "lesson-content", "exercise", "quiz", "summary"}

\* C7: a generation request of one of the five known types posts showLoading
\* first and, when it ends, exactly one contentGenerated whose content is
\* the text of a provider or the static template of the type; it posts
\* nothing else and never showError, whatever the providers do.
C7_KnownTypeNeverErrors ==
    \A r \in Req :
        (req[r].kind = "gen" /\ req[r].type \in FiveTypes) =>
            /\ req[r].posts[1].command = "showLoading"
            /\ req[r].pc = "await" => Len(req[r].posts) = 1
            /\ req[r].pc = "done" =>
                  /\ Len(req[r].posts) = 2
                  /\ req[r].posts[2].command = "contentGenerated"
                  /\ req[r].posts[2].type = req[r].type
                  /\ req[r].posts[2].content =
                        (IF req[r].chain = "returned" THEN req[r].callValue
                         ELSE ContentTemplate(req[r].type, req[r].topic, req[r].domain))

\* a summary was asked for, all providers failed, the template was posted
C7_Witness ==
    \E r \in Req :
        /\ req[r].kind = "gen" /\ req[r].type = "summary" /\ req[r].pc = "done"
        /\ req[r].chain = "thrown"
        /\ req[r].posts[2].command = "contentGenerated"

\* C8: an invocation never has more than one provider call in flight, the
\* call in flight is the one started last, and a call replaces another in
\* flight only when that one has settled with a failure.
C8_OneCallInFlight ==
    /\ [](\A r \in Req :
            /\ Cardinality(req[r].inflight) <= 1
            /\ req[r].inflight # {} =>
                  /\ req[r].chain = "running"
                  /\ req[r].inflight = {req[r].calls[Len(req[r].calls)]})
    /\ [][\A r \in Req :
            (req[r].inflight # {} /\ req'[r].inflight # {}
             /\ req'[r].inflight # req[r].inflight) =>
                /\ FailingReply(req'[r].reply)
                /\ req'[r].lastErr # "none"
                /\ \E p \in req[r].inflight, n \in req'[r].inflight :
                      \E i, j \in 1..3 : /\ DocumentedOrder[i] = p
                                         /\ DocumentedOrder[j] = n
                                         /\ i < j]_vars

\* the local model answered 500 and only then Claude was called
C8_Witness ==
    \E r \in Req :
        /\ req[r].inflight = {"Claude"}
        /\ req[r].calls = DocumentedOrder
        /\ req[r].reply.fetch = "resolved" /\ ~req[r].reply.ok
        /\ env.OPENAI_API_KEY = <<"sk-key">>

\* the pools a responder called with project p can draw from
PoolsOf(p) ==
    {codeResponses, vscodeResponses, helpResponses, greetingResponses, defaultResponses,
     GenericResponses, ProjectResponses(p), SidebarGenericResponses,
     SidebarProjectResponses(p)}

\* C9: a call of _getSmartFallbackResponse or of _getBookWritingFallback
\* (panel or sidebar) returns a string with at least one character, for the
\* empty message and for whitespace too (the result is never `undefined`,
\* which an index outside the pool would give); the index
\* floor(random * length) lies within 0 .. length - 1 for every pool.
C9_RespondersNeverEmpty ==
    fb.fn # "none" =>
        /\ fb.fn \in {"smart", "static", "panel", "sidebar"}
        /\ fb.out # Undefined
        /\ NonEmptyText(fb.out)
        /\ \A pool \in PoolsOf(fb.project) :
              RandomIndex(fb.rnd, Len(pool)) \in 0..(Len(pool) - 1)

\* the panel's responder called with two blanks and the largest random
\* number: the last entry of the pool
C9_Witness ==
    /\ fb.fn = "panel"
    /\ fb.msg = <<" ", " ">>
    /\ fb.rnd[1] = FineSteps - 1
    /\ fb.out = GenericResponses[Len(GenericResponses)]

\* the keyword sets in the order of priority, and the pool of each
PriorityKeywords ==
    << {KwCode, KwFunction, KwVariable, KwDebug},
       {KwVscode, KwExtension, KwEditor, KwWorkspace},
       {KwHow, KwWhat, KwWhy, KwQuestionMark},
       {KwHello, KwHi, KwHey, KwGood} >>

PriorityPools ==
    <<codeResponses, vscodeResponses, helpResponses, greetingResponses, defaultResponses>>

Matches(lower, i) == \E k \in PriorityKeywords[i] : Includes(lower, k)

\* the first set with a keyword that occurs in the lower-cased message, 5 if none
FirstMatch(userMessage) ==
    LET lower == ToLowerCase(userMessage)
    IN  IF \E i \in 1..4 : Matches(lower, i)
        THEN CHOOSE i \in 1..4 : Matches(lower, i) /\ \A j \in 1..(i - 1) : ~Matches(lower, j)
        ELSE 5

\* C10: _getSmartFallbackResponse answers from the pool of the first of
\* coding, platform, interrogative, greeting that has a keyword occurring in
\* the lower-cased message, and from the default pool when none has; so a
\* message containing 'debug' gets a coding entry, 'hello' a greeting entry
\* and the empty message a default entry.
C10_SmartPriority ==
    fb.fn = "smart" =>
        /\ fb.out \in Range(PriorityPools[FirstMatch(fb.msg)])
        /\ \A i \in 1..5 : i # FirstMatch(fb.msg) => fb.out \notin Range(PriorityPools[i])
        /\ Includes(fb.msg, KwDebug) => fb.out \in Range(codeResponses)
        /\ fb.msg = KwHello => fb.out \in Range(greetingResponses)
        /\ fb.msg = <<>> => fb.out \in Range(defaultResponses)

\* 'good code' has a greeting keyword and a coding keyword: coding wins
C10_Witness ==
    /\ fb.fn = "smart"
    /\ fb.msg = <<"g","o","o","d"," ","c","o","d","e">>
    /\ fb.out = codeResponses[1]

\* C11: when the last provider fails for a chat message the responder is
\* called with the message the user typed, not with the prompt: the text
\* posted is what the responder returns for the raw message, although the
\* prompt itself would be classified differently ('structured', 'OUTLINES'
\* in its preamble); and in the Chat Robot panel 'How do I debug my code?'
\* is answered from the coding pool.
C11_ResponderGetsRawMessage ==
    [][\A r \in Req :
          /\ (req[r].kind = "chat" /\ req[r].pc = "await" /\ req'[r].chain = "thrown") =>
                /\ PostedText(req'[r]) \in
                      {getBookWritingFallback(req[r].msg, currentProject, rnd) : rnd \in Rnd}
                /\ BookCategory(req[r].prompt) = "outline"
                /\ BookCategory(req[r].msg) # "outline" =>
                      PostedText(req'[r]) \notin
                         {getBookWritingFallback(req[r].prompt, currentProject, rnd) :
                             rnd \in Rnd}
          /\ (req[r].kind = "robot" /\ req[r].pc = "command" /\ req'[r].pc = "done") =>
                /\ req'[r].posts[2].text \in
                      {getSmartFallbackResponse(req[r].msg, rnd) : rnd \in Rnd}
                /\ Includes(req[r].msg, KwDebug) =>
                      req'[r].posts[2].text \in Range(codeResponses)]_vars

\* 'Quiz' was answered offline with the reply about assessments
C11_Witness ==
    \E r \in Req :
        /\ req[r].kind = "chat" /\ req[r].chain = "thrown" /\ req[r].pc = "done"
        /\ req[r].msg = <<"Q","u","i","z">>
        /\ PostedText(req[r]) = GenericReply("quiz")

\* what the responder that fb records returns in a session whose project is p
Respond(p) ==
    CASE fb.fn = "smart"   -> getSmartFallbackResponse(fb.msg, fb.rnd)
      [] fb.fn = "static"  -> getBookWritingFallbackStatic(fb.msg, fb.rnd)
      [] fb.fn = "panel"   -> getBookWritingFallback(fb.msg, p, fb.rnd)
      [] fb.fn = "sidebar" -> getSidebarFallback(fb.msg, p, fb.rnd)

\* C12 as stated: a responder returns the same string for the same message
\* and the same random choice in every session state.
C12_SameInEverySession ==
    fb.fn # "none" => \A p \in FallbackProjects : Respond(p) = fb.out

\* C12 amended: a call of a responder changes no state; the result of
\* _getSmartFallbackResponse and of the earlier _getBookWritingFallback
\* depends on the message and the random choice only; the result of the
\* panel's and the sidebar's _getBookWritingFallback depends also on the
\* current project's mainTopic and domain, but not on the generated files
\* (nor on the activity log, which it does not read).
C12_PureUpToProject ==
    /\ [](fb.fn # "none" =>
            \A p \in FallbackProjects :
                (\/ fb.fn \in {"smart", "static"}
                 \/ /\ p.mainTopic = fb.project.mainTopic
                    /\ p.domain = fb.project.domain) => Respond(p) = fb.out)
    /\ [][fb' # fb =>
            UNCHANGED <<env, recentActivities, currentProject, req, host, appended>>]_vars

\* the panel's responder answered from the project pool in a session with a
\* generated file
C12_Witness ==
    /\ fb.fn = "panel"
    /\ hasProject(fb.project)
    /\ fb.project.generatedFiles # <<>>
    /\ fb.out \in Range(ProjectResponses(fb.project))
    /\ fb.out # getBookWritingFallback(fb.msg, NoProject, fb.rnd)

\* C13: after n calls of addToContext the log holds min(n, 10) records, and
\* they are the records of the last min(n, 10) calls, unaltered and in the
\* order of the calls.
C13_LogIsLastTen ==
    LET n == Len(appended)
        k == Len(recentActivities)
    IN  /\ k = (IF n < 10 THEN n ELSE 10)
        /\ \A i \in 1..k : recentActivities[i] = appended[n - k + i]

\* twelve records were appended: the two oldest, which differ, are gone
C13_Witness ==
    /\ Len(appended) = 12
    /\ Len(recentActivities) = 10
    /\ appended[2] # appended[3]
    /\ recentActivities[1] = appended[3]
    /\ recentActivities[10] = appended[12]

\* C14: the prompt of a chat request contains the user's message, whole
\* and unchanged, right after 'USER QUESTION: ', whatever context summary
\* was put before it; so when a provider echoes the prompt it was sent, the
\* response posted contains the message.
C14_PromptCarriesMessage ==
    \A r \in Req :
        req[r].kind = "chat" =>
            /\ req[r].msg # <<>>
            /\ Includes(req[r].prompt, <<"USER QUESTION: ">> \o req[r].msg \o <<"\n\nCONTEXT AWARENESS: Use the session context above to provide relevant, informed responses. [...]">>)
            /\ Includes(req[r].prompt, req[r].msg)
            /\ req[r].chain = "returned" =>
                  /\ req[r].callValue = req[r].prompt
                  /\ Includes(PostedText(req[r]), req[r].msg)

\* a chat message sent after a generation request (so with a project and an
\* activity in the summary) was echoed by Claude
C14_Witness ==
    \E r \in Req :
        /\ req[r].kind = "chat" /\ req[r].chain = "returned"
        /\ req[r].calls = DocumentedOrder
        /\ hasProject(currentProject)
        /\ Len(recentActivities) = 2
        /\ Includes(PostedText(req[r]), <<"Q","u","i","z">>)

\* the requests whose handler is waiting for a provider
InProgress == {r \in Req : req[r].pc = "await"}

\* C15 as stated: at most one request of the panel is in progress at a time.
C15_OneRequestAtATime == Cardinality(InProgress) <= 1

\* the activity a request records when it arrives
ArrivalDetails(q) ==
    IF q.kind \in {"chat", "sidebar"} THEN <<"User asked: \"">> \o q.msg \o <<"\"">>
    ELSE <<"Generating ", q.type, " for \"">> \o q.topic \o <<"\" in ">> \o q.domain
         \o <<" domain">>

\* C15 amended: requests are not serialized - a submission is handled at
\* once, up to its first await, also while earlier requests are waiting for
\* their providers - but handlers run one stretch at a time: a step belongs
\* to one request, the activity log is written only in the step in which a
\* request arrives, and its records are those of the requests in the order
\* of arrival.
C15_InterleavedButOrdered ==
    /\ [](\A r \in Req :
            req[r].pc # "idle" =>
                /\ Len(recentActivities) >= r
                /\ recentActivities[r].details = ArrivalDetails(req[r]))
    /\ [][/\ \A r1, r2 \in Req :
                (req'[r1] # req[r1] /\ req'[r2] # req[r2]) => r1 = r2
          /\ recentActivities' # recentActivities =>
                \E r \in Req : /\ req[r].pc = "idle" /\ req'[r].pc # "idle"
                               /\ recentActivities' =
                                     Append(recentActivities,
                                            [action |-> IF req'[r].kind = "chat" THEN "chat"
                                                        ELSE "content_generation",
                                             details |-> ArrivalDetails(req'[r])])]_vars

\* a chat message and a generation request are both waiting for a provider
C15_Witness ==
    \E r1, r2 \in Req :
        /\ r1 < r2
        /\ req[r1].pc = "await" /\ req[r1].kind = "chat"
        /\ req[r2].pc = "await" /\ req[r2].kind = "gen"
        /\ Len(recentActivities) = 2

\* the outcomes of a call that has settled
SettledReplies ==
    {reply \in [fetch : {"rejected", "resolved"}, ok : BOOLEAN,
                json : {"none", "rejected", "null", "value"},
                field : {Undefined, <<>>} \cup {<<"text generated by ", p>> :
                                                  p \in {"OpenAI", "LocalAI", "Claude"}}] :
        /\ reply.fetch = "rejected" => ~reply.ok
        /\ reply.json # "none" <=> reply.ok}

\* C16: a request that waits for a provider's call goes on only when that
\* very call settles: while the call is outstanding no later provider is
\* called, the offline response is not used and nothing is posted; there is
\* no step that gives up waiting.
C16_NoProgressWithoutSettlement ==
    /\ [](\A r \in Req :
            req[r].pc = "await" =>
                /\ Cardinality(req[r].inflight) = 1
                /\ Len(req[r].posts) = 1
                /\ ~req[r].fallback
                /\ req[r].chain = "running")
    /\ [][\A r \in Req :
            (req[r].pc = "await" /\ req'[r] # req[r]) =>
                /\ req'[r].reply \in SettledReplies
                /\ req'[r].inflight \cap req[r].inflight = {}
                /\ \/ req'[r].pc = "done"
                   \/ /\ req'[r].lastErr \in {"fetch failed", "API error: status",
                                              "SyntaxError", "TypeError",
                                              "Anthropic API key not configured"}
                      /\ req'[r].posts = req[r].posts]_vars

\* the local model is being waited for: only the placeholder was posted
C16_Witness ==
    \E r \in Req :
        /\ req[r].pc = "await" /\ req[r].kind = "chat"
        /\ req[r].calls = <<"OpenAI", "LocalAI">>
        /\ req[r].inflight = {"LocalAI"}
        /\ req[r].reply.fetch = "rejected"
        /\ Len(req[r].posts) = 1

\* a text with a character that is not white space at both ends
TrimmedNonEmpty(s) ==
    /\ Len(s) > 0
    /\ s[1] \notin {" ", "\t", "\n", "\r"}
    /\ s[Len(s)] \notin {" ", "\t", "\n", "\r"}

\* C17: whatever the inputs of the webview hold (nothing, blanks, a text
\* with blanks around it), a chat message that reaches _handleChatMessage
\* and a topic that reaches _handleContentGeneration are non-empty and
\* trimmed, so the chain is never started with an empty message or topic.
C17_NoEmptySubmission ==
    \A r \in Req :
        /\ req[r].kind = "chat" =>
              /\ TrimmedNonEmpty(req[r].msg)
              /\ \E input \in ChatInputs : req[r].msg = Trim(input)
        /\ req[r].kind = "gen" =>
              /\ TrimmedNonEmpty(req[r].topic)
              /\ \E input \in TopicInputs : req[r].topic = Trim(input)
        /\ req[r].chain # "none" => req[r].kind \in {"chat", "gen"} /\ req[r].prompt # <<>>

\* ' hi ' was typed: 'hi' arrived (no input holds 'hi' itself)
C17_Witness ==
    /\ <<"h","i">> \notin ChatInputs
    /\ \E r \in Req :
          /\ req[r].kind = "chat" /\ req[r].msg = <<"h","i">>
          /\ req[r].chain = "running"

\* what a handler itself records before it calls _getAIResponse
HandlerRecord(q) ==
    IF q.kind \in {"chat", "sidebar"} THEN [action |-> "chat", details |-> ArrivalDetails(q)]
    ELSE [action |-> "content_generation", details |-> ArrivalDetails(q)]

\* C18: a run of _getAIResponse writes nothing.  In the step that enters it
\* the only changes are those of the calling handler (its one record, and
\* the topic and domain of a generation request); in every later step of
\* it - a provider failing over to the next, the chain returning, the chain
\* throwing - the activity log, the project context with its generated
\* files, the environment and the file system stay as they were.
C18_ChainWritesNothing ==
    [][\A r \in Req :
          /\ (req[r].pc = "await" /\ req'[r] # req[r]) =>
                /\ req'[r].chain \in {"running", "returned", "thrown"}
                /\ UNCHANGED <<recentActivities, currentProject, env, host, appended>>
          /\ (req[r].pc = "idle" /\ req'[r].chain = "running") =>
                /\ appended' = Append(appended, HandlerRecord(req'[r]))
                /\ recentActivities' = SliceLast(Append(recentActivities,
                                                        HandlerRecord(req'[r])), ActivityCap)
                /\ currentProject'.generatedFiles = currentProject.generatedFiles
                /\ (req'[r].kind = "chat" => currentProject' = currentProject)
                /\ UNCHANGED <<env, host>>
      ]_vars

\* one chain returned after a provider failed, another threw, and the log
\* holds the two records of the handlers only
C18_Witness ==
    \E r1, r2 \in Req :
        /\ req[r1].chain = "returned" /\ Len(req[r1].calls) > 1
        /\ req[r2].chain = "thrown" /\ Len(req[r2].calls) = 3
        /\ Len(appended) = 2 /\ Len(recentActivities) = 2
        /\ currentProject.generatedFiles = <<>>
        /\ host = PanelShown

\* the records a log holds, without what it was cut from
Records(log) == [i \in 1..Len(log) |-> [action |-> log[i].action, details |-> log[i].details]]

\* C19: there is one activity log and one project context for the session.
\* The log holds the latest records of the sidebar chat and of the panels
\* alike, in the order of arrival; a request of either reads, in its prompt,
\* what the other recorded just before; creating, revealing or disposing of
\* a panel changes neither the log nor the project; and the log is empty
\* only as long as nothing was recorded since activation.
C19_OneLogForTheSession ==
    /\ [](/\ Records(recentActivities) = SliceLast(appended, ActivityCap)
          /\ (recentActivities = <<>> <=> appended = <<>>)
          /\ \A r \in Req :
                req[r].pc # "idle" =>
                   /\ Len(appended) >= r
                   /\ appended[r] = HandlerRecord(req[r])
                   /\ (r > 1 /\ req[r].pc = "await") =>
                          Includes(req[r].prompt, ArrivalDetails(req[r - 1])))
    /\ [][host' # host => UNCHANGED <<recentActivities, currentProject, appended>>]_vars

\* the first panel took a generation request and was closed, a second panel
\* is open, and a chat of the sidebar sees the request of the first panel and
\* its project in its prompt
C19_Witness ==
    \E r1, r2 \in Req :
        /\ r2 = r1 + 1
        /\ req[r1].kind = "gen" /\ req[r1].panel = 1
        /\ host.created = 2 /\ host.panel
        /\ req[r2].kind = "sidebar"
        /\ Includes(req[r2].prompt, ArrivalDetails(req[r1]))
        /\ Includes(req[r2].prompt, <<"- Main Topic: ">> \o req[r1].topic)
        /\ Len(recentActivities) = 2

\* the call handled in this step
ThisCall == host'.calls[Len(host'.calls)]

C21_AtMostOnePanel ==
    /\ [](/\ host.panel <=> host.live # {}
          /\ Cardinality(host.live) <= 1
          /\ host.live \subseteq {host.created})
    /\ [][/\ host'.created # host.created =>
                /\ ~host.panel /\ host.live = {}
                /\ host'.created = host.created + 1
                /\ host'.panel /\ host'.live = {host'.created}
          /\ (host.panel /\ host'.panel) => host'.live = host.live
          /\ (host.panel /\ ~host'.panel) => host'.live = {}]_vars

\* a first panel was disposed of and an open command created a second one
C21_Witness ==
    /\ host.created = 2
    /\ host.panel /\ host.live = {2}
    /\ \E r \in Req : req[r].panel = 1

\* the file name ending and the request line of the generator's prompt
\* that belong to each content type
TypeTable ==
    [t \in FiveTypes |->
        CASE t = "chapter-outline" ->
                [suffix |-> "-outline.md",
                 request |-> "CONTENT REQUEST: Create a chapter outline for \""]
          [] t = "lesson-content" ->
                [suffix |-> "-lesson.md",
                 request |-> "CONTENT REQUEST: Create lesson content for \""]
          [] t = "exercise" ->
                [suffix |-> "-exercise.md",
                 request |-> "CONTENT REQUEST: Create exercises for \""]
          [] t = "quiz" ->
                [suffix |-> "-quiz.md", request |-> "CONTENT REQUEST: Create a quiz for \""]
          [] t = "summary" ->
                [suffix |-> "-summary.md",
                 request |-> "CONTENT REQUEST: Create a summary for \""]]

\* the prompt holds the request line of the type
AsksFor(prompt, type) == \E i \in 1..Len(prompt) : prompt[i] = TypeTable[type].request

\* C22: a generation request of one of the five types runs the generator of
\* that type (its prompt asks for that kind of content) and, when done,
\* posts contentGenerated with the file name <sanitized topic><ending of the
\* type>; a request of any other type posts showLoading and then showError
\* 'Unknown content type', never contentGenerated, and calls no provider.
C22_TypeSelectsGeneratorAndName ==
    \A r \in Req :
        req[r].kind = "gen" =>
            IF req[r].type \in FiveTypes
            THEN /\ AsksFor(req[r].prompt, req[r].type)
                 /\ req[r].pc = "done" =>
                       /\ req[r].posts[Len(req[r].posts)].command = "contentGenerated"
                       /\ req[r].posts[Len(req[r].posts)].type = req[r].type
                       /\ req[r].posts[Len(req[r].posts)].filename =
                             sanitizeFilename(req[r].topic)
                             \o <<TypeTable[req[r].type].suffix>>
            ELSE /\ req[r].pc = "done"
                 /\ Len(req[r].posts) = 2
                 /\ req[r].posts[1].command = "showLoading"
                 /\ req[r].posts[2] = [command |-> "showError",
                                       message |-> <<"Failed to generate content: ",
                                                     "Error: Unknown content type">>]
                 /\ req[r].calls = <<>> /\ req[r].chain = "none" /\ req[r].inflight = {}
                 /\ req[r].prompt = <<>>

\* a request of the type 'poem' ended with showError, no provider called
C22_Witness ==
    \E r \in Req :
        /\ req[r].kind = "gen" /\ req[r].type = "poem" /\ req[r].pc = "done"
        /\ req[r].posts[2].command = "showError"
        /\ req[r].calls = <<>>

\* C23: in the chat of either webview, an element added as the placeholder
\* of a request is only ever rewritten by the response to that request, and
\* once a request is done its placeholder shows its response.
C23_PlaceholderGetsOwnResponse ==
    \A view \in {"panel", "sidebar"} :
        \A i \in 1..Len(webview[view]) :
            LET e == webview[view][i]
            IN  /\ e.replacedFor \in {0, e.addedFor}
                /\ req[e.addedFor].pc = "done" => e.replacedFor = e.addedFor

\* C24: provider calls settling in the end, a chat message the panel
\* received leads to the state in which its handler is done and has posted
\* exactly two messages: the addChatMessage placeholder, then one
\* replaceChatMessage; before that it has posted the placeholder only.
C24_EveryMessageAnswered ==
    /\ [](\A r \in Req :
            req[r].kind = "chat" =>
               /\ req[r].posts[1] = ChatPost("addChatMessage", <<"Writing...">>)
               /\ \A i \in 2..Len(req[r].posts) :
                     req[r].posts[i].command = "replaceChatMessage"
               /\ Len(req[r].posts) = (IF req[r].pc = "done" THEN 2 ELSE 1))
    /\ \A r \in Req :
          (req[r].kind = "chat") ~>
             (/\ req[r].pc = "done"
              /\ Len(req[r].posts) = 2
              /\ req[r].posts[2].command = "replaceChatMessage"
              /\ NonEmptyText(req[r].posts[2].text))

\* a chat message was answered by the offline responder after all three
\* providers had been called and had failed
C24_Witness ==
    /\ req[1].kind = "chat" /\ req[1].pc = "done"
    /\ req[1].calls = <<"OpenAI", "LocalAI", "Claude">> /\ req[1].chain = "thrown"
    /\ Len(req[1].posts) = 2
    /\ req[1].posts[2].command = "replaceChatMessage"

\* C25: a handler of a panel calls postMessage on the panel's webview only
\* while that panel is live: no request posts a message in a step that
\* starts with its panel disposed of.
C25_NoPostAfterDispose ==
    [][\A r \in Req :
          (req[r].kind \in {"chat", "gen"} /\ Len(req'[r].posts) > Len(req[r].posts))
             => req[r].panel \in host.live]_vars

\* the last line of the RECENT ACTIVITIES block of a summary that lists
\* `details` as its most recent activity, at position k
MostRecentLine(k, details) ==
    <<Digits[k], ". ">> \o details \o <<" (", "<timeAgo>", " min ago)\n", "\n">>

\* C26: the prompt of a request is assembled from the context as the
\* request's own handler left it.  The summary in the prompt of the r-th
\* request lists the record of this very request as its most recent
\* activity, and the prompt of a generation request shows the topic and the
\* domain of this request as the current project.
C26_ContextBeforePrompt ==
    \A r \in Req :
        (req[r].kind \in {"chat", "gen"} /\ req[r].prompt # <<>>) =>
            /\ \E k \in 1..SummaryCount :
                  /\ k = (IF r < SummaryCount THEN r ELSE SummaryCount)
                  /\ Includes(req[r].prompt, MostRecentLine(k, ArrivalDetails(req[r])))
            /\ req[r].kind = "gen" =>
                  Includes(req[r].prompt,
                           <<"- Main Topic: ">> \o req[r].topic
                           \o <<"\n", "- Domain: ">> \o req[r].domain \o <<"\n">>)

\* the second request of the session is a chat message whose prompt lists
\* the first request and then, as number 2 and last, the message itself
C26_Witness ==
    /\ req[1].kind = "gen" /\ req[2].kind = "chat"
    /\ Includes(req[2].prompt, <<"1", ". ">> \o ArrivalDetails(req[1]))
    /\ Includes(req[2].prompt, MostRecentLine(2, ArrivalDetails(req[2])))
    /\ Includes(req[1].prompt, <<"- Main Topic: ">> \o req[1].topic)

\* C27: a call updateProjectContext(topic, domain) sets mainTopic to topic
\* if topic is a non-empty string and leaves it otherwise, the same for
\* domain, and leaves the generated files and the activity log alone; and
\* no operation of the context manager turns a mainTopic or a domain that is
\* set into one that is not.
C27_UpdateOnlyOverwrites ==
    [][/\ (fb'.fn = "updateProjectContext" /\ fb' # fb) =>
             /\ currentProject'.mainTopic =
                   (IF fb'.msg \in {Undefined, <<>>} THEN currentProject.mainTopic
                    ELSE fb'.msg)
             /\ currentProject'.domain =
                   (IF fb'.out \in {Undefined, <<>>} THEN currentProject.domain
                    ELSE fb'.out)
             /\ currentProject'.generatedFiles = currentProject.generatedFiles
             /\ UNCHANGED <<recentActivities, appended>>
       /\ currentProject.mainTopic \notin {Undefined, <<>>} =>
             currentProject'.mainTopic \notin {Undefined, <<>>}
       /\ currentProject.domain \notin {Undefined, <<>>} =>
             currentProject'.domain \notin {Undefined, <<>>}
      ]_vars

\* topic and domain were set, a file and an activity recorded, and the last
\* call, updateProjectContext('', undefined), left all of it in place
C27_Witness ==
    /\ fb.fn = "updateProjectContext" /\ fb.msg = <<>> /\ fb.out = Undefined
    /\ currentProject.mainTopic = <<"G","o">>
    /\ currentProject.domain = <<"Technology">>
    /\ Len(currentProject.generatedFiles) = 1
    /\ Len(recentActivities) = 1

\* how often the atom occurs in the rope
RECURSIVE Count(_, _)
Count(s, atom) ==
    IF s = <<>> THEN 0 ELSE (IF s[1] = atom THEN 1 ELSE 0) + Count(Tail(s), atom)

\* C28: the string getContextSummary returns numbers the k = min(n, 5) latest
\* activities of the log 1..k, oldest first, and lists no others; it holds
\* the CURRENT PROJECT CONTEXT block exactly if mainTopic and domain are both
\* set; it is empty for an empty log without a project; and the call
\* changes neither the log nor the project.
C28_SummaryOfLastFive ==
    [][(fb'.fn = "getContextSummary" /\ fb' # fb) =>
          LET log == recentActivities
              n   == Len(log)
              k   == IF n < 5 THEN n ELSE 5
              out == fb'.out
          IN  /\ \A j \in 1..k :
                    Includes(out, <<Digits[j], ". ">> \o log[n - k + j].details \o <<" (">>)
              /\ Count(out, ". ") = k
              /\ Count(out, "RECENT ACTIVITIES:\n") = (IF n > 0 THEN 1 ELSE 0)
              /\ Count(out, "CURRENT PROJECT CONTEXT:\n") =
                    (IF /\ currentProject.mainTopic \notin {Undefined, <<>>}
                        /\ currentProject.domain \notin {Undefined, <<>>}
                     THEN 1 ELSE 0)
              /\ (n = 0 /\ currentProject.mainTopic = Undefined) => out = <<>>
              /\ UNCHANGED <<recentActivities, currentProject, appended>>
      ]_vars

\* six activities are in the log, the oldest a chat and the next a file
\* creation: the summary starts its list with the file creation, and has
\* the project block
C28_Witness ==
    /\ fb.fn = "getContextSummary"
    /\ Len(recentActivities) = 6
    /\ recentActivities[1].action = "chat" /\ recentActivities[2].action = "file_creation"
    /\ Includes(fb.out, <<"RECENT ACTIVITIES:\n", "1", ". ", "Created file: ">>)
    /\ Includes(fb.out, <<"CURRENT PROJECT CONTEXT:\n">>)
    /\ Count(fb.out, ". ") = 5

\* C29: whatever string _sanitizeFilename is given, the string it returns
\* consists of the characters a-z, 0-9 and '-' only, has no two hyphens in
\* a row, and is returned unchanged when sanitized again.
C29_SanitizedAndIdempotent ==
    fb.fn = "sanitizeFilename" =>
        /\ \A i \in 1..Len(fb.out) :
              fb.out[i] \in {"a","b","c","d","e","f","g","h","i","j","k","l","m","n","o",
                             "p","q","r","s","t","u","v","w","x","y","z",
                             "0","1","2","3","4","5","6","7","8","9","-"}
        /\ \A i \in 1..(Len(fb.out) - 1) : ~(fb.out[i] = "-" /\ fb.out[i + 1] = "-")
        /\ sanitizeFilename(fb.out) = fb.out

\* ' -/' was sanitized: the blank became a hyphen, the slash was removed and
\* the two hyphens became one
C29_Witness ==
    /\ fb.fn = "sanitizeFilename"
    /\ fb.msg = <<" ", "-", "/">>
    /\ fb.out = <<"-">>

\* the entries of the five pools of _getSmartFallbackResponse
SmartPoolEntries ==
    Range(codeResponses) \cup Range(vscodeResponses) \cup Range(helpResponses)
    \cup Range(greetingResponses) \cup Range(defaultResponses)

\* C30: a message to the Chat Robot panel is never answered by
\* _getAIResponse: whether the github.copilot.generate command resolves or
\* rejects, the handler ends in its catch block.  It posts the 'Thinking...'
\* addMessage first and, the command having settled, exactly one
\* replaceLastMessage, whose text is an entry of a pool of
\* _getSmartFallbackResponse.
C30_RobotAlwaysFallsBack ==
    /\ [](\A r \in Req :
            req[r].kind = "robot" =>
               /\ req[r].posts[1] = [command |-> "addMessage", sender |-> "bot",
                                     text |-> <<"Thinking...">>]
               /\ req[r].chain # "returned"
               /\ req[r].pc = "command" => Len(req[r].posts) = 1
               /\ req[r].pc = "done" =>
                     /\ req[r].fallback
                     /\ Len(req[r].posts) = 2
                     /\ req[r].posts[2].command = "replaceLastMessage"
                     /\ req[r].posts[2].text \in SmartPoolEntries)
    /\ \A r \in Req : (req[r].kind = "robot") ~> (req[r].kind = "robot" /\ req[r].pc = "done")

\* 'How do I debug my code?' was answered from the pool of the code replies
C30_Witness ==
    \E r \in Req :
        /\ req[r].kind = "robot" /\ req[r].pc = "done"
        /\ Includes(req[r].msg, <<"d","e","b","u","g">>)
        /\ req[r].posts[2].text \in Range(codeResponses)

====
